---- MODULE Spec2Model ----
(***************************************************************************)
(* A model of the state-designer core (createStateDesigner.ts): the send   *)
(* queue, the handler evaluator, the transition cascade, the state tree,   *)
(* and the repeats and awaits the host runs for the active states.         *)
(* JavaScript's run-to-completion execution is modelled by a stack of      *)
(* running async call chains ("running"); a chain leaves the stack at      *)
(* every await and is resumed later, in any order.                         *)
(***************************************************************************)
EXTENDS Integers, Sequences, FiniteSets, TLC

(* ------------------------------ bounds --------------------------------- *)

\* number of send() calls the callers of the instance make
MaxSends == 2

\* the loop guard of runEventHandler: `update.transitions > 200`
LoopLimit == 200

\* number of send() calls the callers make on a design whose handlers send
MaxRelayed == 1

\* transitions one async call chain is followed for (just past the guard)
MaxHops == 203

\* ticks the host delivers to the repeats of an instance
MaxTicks == 2

\* the values a settled await carries: 1..MaxValue
MaxValue == 2

(* ------------------------------ values --------------------------------- *)

Undefined == [t |-> "undefined"]

Num(n) == [t |-> "num", v |-> n]

\* the result { interval, elapsed } of a repeat's tick
Elapsed == [t |-> "elapsed"]

Range(s) == {s[i] : i \in 1..Len(s)}

\* last(array) of lodash, on a non-empty sequence
Last(s) == s[Len(s)]

Front(s) == SubSeq(s, 1, Len(s) - 1)

\* String.prototype.endsWith on strings held as sequences of characters
EndsWith(s, suffix) ==
    /\ Len(suffix) <= Len(s)
    /\ SubSeq(s, Len(s) - Len(suffix) + 1, Len(s)) = suffix

RECURSIVE SplitFrom(_, _, _)
SplitFrom(s, i, acc) ==
    IF i > Len(s) THEN <<acc>>
    ELSE IF s[i] = "." THEN <<acc>> \o SplitFrom(s, i + 1, <<>>)
    ELSE SplitFrom(s, i + 1, Append(acc, s[i]))

\* String.prototype.split(".")
Split(s) == SplitFrom(s, 1, <<>>)

(* ------------------------------ designs -------------------------------- *)

\* A handler item after normalisation: every slot present; the optional
\* slots (wait, send, to, elseSend, elseTo, secretlyTo) hold zero or one
\* element.
Item ==
    [get |-> <<>>, if |-> <<>>, unless |-> <<>>, ifAny |-> <<>>,
     wait |-> <<>>, do |-> <<>>, send |-> <<>>, to |-> <<>>,
     elseDo |-> <<>>, elseSend |-> <<>>, elseTo |-> <<>>,
     secretlyDo |-> <<>>, secretlyTo |-> <<>>]

Do(a) == [Item EXCEPT !.do = <<a>>]

To(p) == [Item EXCEPT !.to = <<p>>]

Ev(e) == [event |-> e, payload |-> Undefined]

\* the names of the states of the designs, as strings of characters
Name ==
    [low |-> <<"l", "o", "w">>,
     high |-> <<"h", "i", "g", "h">>,
     root |-> <<"r", "o", "o", "t">>,
     a |-> <<"a">>,
     b |-> <<"b">>,
     x |-> <<"x">>,
     y |-> <<"y">>,
     m |-> <<"m">>,
     n |-> <<"n">>,
     power |-> <<"p", "o", "w", "e", "r">>,
     red |-> <<"r", "e", "d">>,
     green |-> <<"g", "r", "e", "e", "n">>,
     dim |-> <<"d", "i", "m">>,
     bright |-> <<"b", "r", "i", "g", "h", "t">>,
     off |-> <<"o", "f", "f">>,
     nowhere |-> <<"n", "o", "w", "h", "e", "r", "e">>,
     spin |-> <<"s", "p", "i", "n">>,
     beat |-> <<"b", "e", "a", "t">>,
     rest |-> <<"r", "e", "s", "t">>,
     idle |-> <<"i", "d", "l", "e">>,
     loading |-> <<"l", "o", "a", "d", "i", "n", "g">>,
     up |-> <<"u", "p">>,
     down |-> <<"d", "o", "w", "n">>]

cPrevious == <<".", "p", "r", "e", "v", "i", "o", "u", "s">>

cRestore == <<".", "r", "e", "s", "t", "o", "r", "e">>

\* Scenario 1 of the documentation: a counter.
Counter ==
    [id |-> <<"#", "c">>,
     data |-> [count |-> 0],
     states |-> [root |-> <<>>],
     name |-> [root |-> Name.root],
     initial |-> [root |-> <<>>],
     on |-> [root |-> [INCR |-> <<Do("incr")>>]],
     onEvent |-> [root |-> <<>>],
     onEnter |-> [root |-> <<>>],
     onExit |-> [root |-> <<>>],
     values |-> {"double"},
     events |-> {"INCR"},
     payloads |-> {Num(1)},
     sends |-> MaxSends,
     builds |-> {FALSE}]

\* Scenario 2: a branch root toggling between two leaves; low counts its
\* exits and high its entries.  No state handles NOOP.
Toggle ==
    [id |-> <<"#", "t">>,
     data |-> [count |-> 0],
     states |-> [root |-> <<"low", "high">>, low |-> <<>>, high |-> <<>>],
     name |-> [root |-> Name.root, low |-> Name.low, high |-> Name.high],
     initial |-> [root |-> <<"low">>, low |-> <<>>, high |-> <<>>],
     on |-> [root |-> <<>>,
             low |-> [T |-> <<To(Name.high)>>],
             high |-> [T |-> <<To(Name.low)>>]],
     onEvent |-> [root |-> <<>>, low |-> <<>>, high |-> <<>>],
     onEnter |-> [root |-> <<>>, low |-> <<>>, high |-> <<<<Do("incr")>>>>],
     onExit |-> [root |-> <<>>, low |-> <<<<Do("incr")>>>>, high |-> <<>>],
     events |-> {"T", "NOOP"},
     sends |-> MaxSends,
     builds |-> {FALSE}]

\* Scenario 5: two states whose onEnter chains transition into each other.
Loop ==
    [id |-> <<"#", "l">>,
     data |-> [count |-> 0],
     states |-> [root |-> <<"low", "high">>, low |-> <<>>, high |-> <<>>],
     name |-> [root |-> Name.root, low |-> Name.low, high |-> Name.high],
     initial |-> [root |-> <<"low">>, low |-> <<>>, high |-> <<>>],
     on |-> [root |-> <<>>, low |-> <<>>, high |-> <<>>],
     onEvent |-> [root |-> <<>>, low |-> <<>>, high |-> <<>>],
     onEnter |-> [root |-> <<>>,
                  low |-> <<<<To(Name.high)>>>>,
                  high |-> <<<<To(Name.low)>>>>],
     onExit |-> [root |-> <<>>, low |-> <<>>, high |-> <<>>],
     events |-> {},
     sends |-> MaxSends,
     builds |-> BOOLEAN]

\* A handler that acts, sends an event and transitions in one item; the
\* root also handles the event it sends.
Relay ==
    [id |-> <<"#", "r">>,
     data |-> [count |-> 0],
     states |-> [root |-> <<"low", "high">>, low |-> <<>>, high |-> <<>>],
     name |-> [root |-> Name.root, low |-> Name.low, high |-> Name.high],
     initial |-> [root |-> <<"low">>, low |-> <<>>, high |-> <<>>],
     on |-> [root |-> [GO |-> <<[Item EXCEPT !.do = <<"incr">>,
                                              !.send = <<Ev("PONG")>>,
                                              !.to = <<Name.high>>]>>,
                       PONG |-> <<Do("incr")>>],
             low |-> <<>>, high |-> <<>>],
     onEvent |-> [root |-> <<>>, low |-> <<>>, high |-> <<>>],
     onEnter |-> [root |-> <<>>, low |-> <<>>, high |-> <<>>],
     onExit |-> [root |-> <<>>, low |-> <<>>, high |-> <<>>],
     events |-> {"GO"},
     sends |-> MaxRelayed,
     builds |-> {FALSE}]

NoChain ==
    [root |-> <<>>, a |-> <<>>, x |-> <<>>, y |-> <<>>,
     b |-> <<>>, m |-> <<>>, n |-> <<>>]

\* Scenario 3: a parallel root with two branch regions; NEXT steps the
\* region that sees it first, the other events re-enter by history.
Regions ==
    [id |-> <<"#", "p">>,
     data |-> [count |-> 0],
     states |-> [NoChain EXCEPT !.root = <<"a", "b">>, !.a = <<"x", "y">>,
                                !.b = <<"m", "n">>],
     name |-> [root |-> Name.root, a |-> Name.a, x |-> Name.x, y |-> Name.y,
               b |-> Name.b, m |-> Name.m, n |-> Name.n],
     initial |-> [NoChain EXCEPT !.a = <<"x">>, !.b = <<"m">>],
     on |-> [NoChain EXCEPT
                !.root = [B_PREVIOUS |-> <<To(Name.b \o cPrevious)>>,
                          RESTORE |-> <<To(Name.root \o cRestore)>>],
                !.x = [NEXT |-> <<To(Name.y)>>],
                !.y = [NEXT |-> <<To(Name.b \o <<".">> \o Name.n)>>],
                !.n = [NEXT |-> <<To(Name.a)>>]],
     onEvent |-> NoChain,
     onEnter |-> NoChain,
     onExit |-> NoChain,
     events |-> {"NEXT", "B_PREVIOUS", "RESTORE"},
     sends |-> MaxSends,
     builds |-> {FALSE}]

\* A root whose onEnter transitions at construction.  NOOP waits behind a
\* guard that fails and does nothing; the root's onEvent computes a result
\* for a guard that fails as well.
Enter ==
    [id |-> <<"#", "e">>,
     data |-> [count |-> 0],
     states |-> [root |-> <<"low", "high">>, low |-> <<>>, high |-> <<>>],
     name |-> [root |-> Name.root, low |-> Name.low, high |-> Name.high],
     initial |-> [root |-> <<"low">>, low |-> <<>>, high |-> <<>>],
     on |-> [root |-> [NOOP |-> <<[Item EXCEPT !.if = <<"never">>,
                                                !.wait = <<1>>,
                                                !.do = <<"incr">>]>>],
             low |-> <<>>, high |-> [PING |-> <<Do("incr")>>]],
     onEvent |-> [root |-> <<<<[Item EXCEPT !.get = <<"one">>,
                                             !.unless = <<"isZero">>,
                                             !.do = <<"incr">>]>>>>,
                  low |-> <<>>, high |-> <<>>],
     onEnter |-> [root |-> <<<<To(Name.high)>>>>, low |-> <<>>, high |-> <<>>],
     onExit |-> [root |-> <<>>, low |-> <<>>, high |-> <<>>],
     events |-> {"NOOP"},
     sends |-> MaxSends,
     builds |-> {FALSE}]

NoPowerChain ==
    [root |-> <<>>, power |-> <<>>, red |-> <<>>, green |-> <<>>,
     dim |-> <<>>, bright |-> <<>>, off |-> <<>>]

\* Scenario 4: history.  power is red or green, green is dim or bright;
\* construction moves to bright, which turns itself off on entry; ON
\* returns to power by "power", BACK by "power.previous" and RESTORE by
\* "power.restore".
Power ==
    [id |-> <<"#", "h">>,
     data |-> [count |-> 0],
     states |-> [NoPowerChain EXCEPT !.root = <<"power", "off">>,
                                     !.power = <<"red", "green">>,
                                     !.green = <<"dim", "bright">>],
     name |-> [root |-> Name.root, power |-> Name.power, red |-> Name.red,
               green |-> Name.green, dim |-> Name.dim, bright |-> Name.bright,
               off |-> Name.off],
     initial |-> [NoPowerChain EXCEPT !.root = <<"power">>,
                                      !.power = <<"red">>,
                                      !.green = <<"dim">>],
     on |-> [NoPowerChain EXCEPT
                !.root = [ON |-> <<To(Name.power)>>,
                          BACK |-> <<To(Name.power \o cPrevious)>>,
                          RESTORE |-> <<To(Name.power \o cRestore)>>]],
     onEvent |-> NoPowerChain,
     onEnter |-> [NoPowerChain EXCEPT !.root = <<<<To(Name.bright)>>>>,
                                      !.bright = <<<<To(Name.off)>>>>],
     onExit |-> NoPowerChain,
     events |-> {"ON", "BACK", "RESTORE"},
     sends |-> MaxRelayed,
     builds |-> {FALSE}]

\* A transition to a path that names no state; low counts its exits.
Lost ==
    [id |-> <<"#", "n">>,
     data |-> [count |-> 0],
     states |-> [root |-> <<"low", "high">>, low |-> <<>>, high |-> <<>>],
     name |-> [root |-> Name.root, low |-> Name.low, high |-> Name.high],
     initial |-> [root |-> <<"low">>, low |-> <<>>, high |-> <<>>],
     on |-> [root |-> [LOST |-> <<To(Name.nowhere)>>],
             low |-> <<>>, high |-> <<>>],
     onEvent |-> [root |-> <<>>, low |-> <<>>, high |-> <<>>],
     onEnter |-> [root |-> <<>>, low |-> <<>>, high |-> <<>>],
     onExit |-> [root |-> <<>>, low |-> <<<<Do("incr")>>>>, high |-> <<>>],
     events |-> {"LOST"},
     sends |-> MaxRelayed,
     builds |-> BOOLEAN]

\* A chain whose second item throws after its first item has counted.
Faulty ==
    [id |-> <<"#", "f">>,
     data |-> [count |-> 0],
     states |-> [root |-> <<>>],
     name |-> [root |-> Name.root],
     initial |-> [root |-> <<>>],
     on |-> [root |-> [FAIL |-> <<Do("incr"), Do("throw")>>]],
     onEvent |-> [root |-> <<>>],
     onEnter |-> [root |-> <<>>],
     onExit |-> [root |-> <<>>],
     events |-> {"FAIL"},
     sends |-> MaxSends,
     builds |-> {FALSE}]

\* An item whose only effects are secret: it counts and moves to high.
Secret ==
    [id |-> <<"#", "s">>,
     data |-> [count |-> 0],
     states |-> [root |-> <<"low", "high">>, low |-> <<>>, high |-> <<>>],
     name |-> [root |-> Name.root, low |-> Name.low, high |-> Name.high],
     initial |-> [root |-> <<"low">>, low |-> <<>>, high |-> <<>>],
     on |-> [root |-> [HUSH |-> <<[Item EXCEPT !.secretlyDo = <<"incr">>,
                                                !.secretlyTo = <<Name.high>>]>>],
             low |-> <<>>, high |-> <<>>],
     onEvent |-> [root |-> <<>>, low |-> <<>>, high |-> <<>>],
     onEnter |-> [root |-> <<>>, low |-> <<>>, high |-> <<>>],
     onExit |-> [root |-> <<>>, low |-> <<>>, high |-> <<>>],
     events |-> {"HUSH"},
     sends |-> MaxRelayed,
     builds |-> {FALSE}]

\* Two repeats: beat counts on a delay, spin runs on every animation
\* frame and its onRepeat leaves for rest, which counts when entered.
Ticker ==
    [id |-> <<"#", "k">>,
     data |-> [count |-> 0],
     states |-> [root |-> <<"beat", "spin", "rest">>,
                 beat |-> <<>>, spin |-> <<>>, rest |-> <<>>],
     name |-> [root |-> Name.root, beat |-> Name.beat, spin |-> Name.spin, rest |-> Name.rest],
     initial |-> [root |-> <<"beat">>, beat |-> <<>>, spin |-> <<>>,
                  rest |-> <<>>],
     on |-> [root |-> [SPIN |-> <<To(Name.spin)>>],
             beat |-> <<>>, spin |-> <<>>, rest |-> <<>>],
     onEvent |-> [root |-> <<>>, beat |-> <<>>, spin |-> <<>>, rest |-> <<>>],
     onEnter |-> [root |-> <<>>, beat |-> <<>>, spin |-> <<>>,
                  rest |-> <<<<Do("incr")>>>>],
     onExit |-> [root |-> <<>>, beat |-> <<>>, spin |-> <<>>, rest |-> <<>>],
     repeat |-> [root |-> <<>>,
                 beat |-> <<[delay |-> TRUE, event |-> <<Do("incr")>>]>>,
                 spin |-> <<[delay |-> FALSE, event |-> <<To(Name.rest)>>]>>,
                 rest |-> <<>>],
     events |-> {"SPIN"},
     sends |-> MaxRelayed,
     builds |-> {FALSE}]

\* SLOW waits, then counts twice; FAST counts at once.
Delay ==
    [id |-> <<"#", "d">>,
     data |-> [count |-> 0],
     states |-> [root |-> <<>>],
     name |-> [root |-> Name.root],
     initial |-> [root |-> <<>>],
     on |-> [root |-> [SLOW |-> <<[Item EXCEPT !.wait = <<1>>,
                                                !.do = <<"incr">>],
                                   Do("incr")>>,
                       FAST |-> <<Do("incr")>>]],
     onEvent |-> [root |-> <<>>],
     onEnter |-> [root |-> <<>>],
     onExit |-> [root |-> <<>>],
     events |-> {"SLOW", "FAST"},
     sends |-> MaxSends,
     builds |-> {FALSE}]

\* loading, entered at construction, awaits a value and keeps what it
\* gets; CANCEL leaves loading before or after the await has settled.
Fetch ==
    [id |-> <<"#", "w">>,
     data |-> [count |-> 0],
     states |-> [root |-> <<"idle", "loading">>,
                 idle |-> <<>>, loading |-> <<>>],
     name |-> [root |-> Name.root, idle |-> Name.idle, loading |-> Name.loading],
     initial |-> [root |-> <<"loading">>, idle |-> <<>>, loading |-> <<>>],
     on |-> [root |-> [LOAD |-> <<To(Name.loading)>>, CANCEL |-> <<To(Name.idle)>>],
             idle |-> <<>>, loading |-> <<>>],
     onEvent |-> [root |-> <<>>, idle |-> <<>>, loading |-> <<>>],
     onEnter |-> [root |-> <<>>, idle |-> <<>>, loading |-> <<>>],
     onExit |-> [root |-> <<>>, idle |-> <<>>, loading |-> <<>>],
     async |-> [root |-> <<>>, idle |-> <<>>,
                loading |-> <<[onResolve |-> <<<<Do("keep")>>>>,
                               onReject |-> <<<<Do("keep")>>>>]>>],
     events |-> {"LOAD", "CANCEL"},
     sends |-> MaxRelayed,
     builds |-> {FALSE}]

\* root counts when entered; up, entered at construction, doubles the
\* count when entered and counts when left; double is a computed value.
Boot ==
    [id |-> <<"#", "o">>,
     data |-> [count |-> 0],
     states |-> [root |-> <<"up", "down">>, up |-> <<>>, down |-> <<>>],
     name |-> [root |-> Name.root, up |-> Name.up, down |-> Name.down],
     initial |-> [root |-> <<"up">>, up |-> <<>>, down |-> <<>>],
     on |-> [root |-> [GO |-> <<To(Name.down)>>], up |-> <<>>, down |-> <<>>],
     onEvent |-> [root |-> <<>>, up |-> <<>>, down |-> <<>>],
     onEnter |-> [root |-> <<<<Do("incr")>>>>, up |-> <<<<Do("twice")>>>>,
                  down |-> <<>>],
     onExit |-> [root |-> <<>>, up |-> <<<<Do("incr")>>>>, down |-> <<>>],
     values |-> {"double"},
     events |-> {"GO"},
     sends |-> MaxRelayed,
     builds |-> {FALSE}]

\* BOTH has two items and each of them produces an event.
Fan ==
    [id |-> <<"#", "b">>,
     data |-> [count |-> 0],
     states |-> [root |-> <<>>],
     name |-> [root |-> Name.root],
     initial |-> [root |-> <<>>],
     on |-> [root |-> [BOTH |-> <<[Item EXCEPT !.send = <<Ev("PING")>>],
                                   [Item EXCEPT !.send = <<Ev("PONG")>>]>>,
                       PING |-> <<Do("incr")>>,
                       PONG |-> <<Do("twice")>>]],
     onEvent |-> [root |-> <<>>],
     onEnter |-> [root |-> <<>>],
     onExit |-> [root |-> <<>>],
     events |-> {"BOTH"},
     sends |-> MaxRelayed,
     builds |-> {FALSE}]

\* Two states are named x: one below a, one, declared later, below the
\* root. GO transitions to "x".
Twins ==
    [id |-> <<"#", "g">>,
     data |-> [count |-> 0],
     states |-> [root |-> <<"a", "far">>, a |-> <<"near">>,
                 near |-> <<>>, far |-> <<>>],
     name |-> [root |-> Name.root, a |-> Name.a, near |-> Name.x,
               far |-> Name.x],
     initial |-> [root |-> <<"far">>, a |-> <<"near">>,
                  near |-> <<>>, far |-> <<>>],
     on |-> [root |-> [GO |-> <<To(Name.x)>>],
             a |-> <<>>, near |-> <<>>, far |-> <<>>],
     onEvent |-> [root |-> <<>>, a |-> <<>>, near |-> <<>>, far |-> <<>>],
     onEnter |-> [root |-> <<>>, a |-> <<>>, near |-> <<>>, far |-> <<>>],
     onExit |-> [root |-> <<>>, a |-> <<>>, near |-> <<>>, far |-> <<>>],
     events |-> {"GO"},
     sends |-> MaxRelayed,
     builds |-> {FALSE}]

\* The root counts on every tick of its repeat; SLOW waits, then counts.
Race ==
    [id |-> <<"#", "v">>,
     data |-> [count |-> 0],
     states |-> [root |-> <<>>],
     name |-> [root |-> Name.root],
     initial |-> [root |-> <<>>],
     on |-> [root |-> [SLOW |-> <<[Item EXCEPT !.wait = <<1>>,
                                                !.do = <<"incr">>]>>]],
     onEvent |-> [root |-> <<>>],
     onEnter |-> [root |-> <<>>],
     onExit |-> [root |-> <<>>],
     repeat |-> [root |-> <<[delay |-> TRUE, event |-> <<Do("incr")>>]>>],
     events |-> {"SLOW"},
     sends |-> MaxRelayed,
     builds |-> {FALSE}]

\* GO leaves a and its child x for b and its child y. Every onExit and
\* onEnter chain appends its own digit to the count (base 5); x and y
\* have a repeat.
Order ==
    [id |-> <<"#", "q">>,
     data |-> [count |-> 0],
     states |-> [root |-> <<"a", "b">>, a |-> <<"x">>, b |-> <<"y">>,
                 x |-> <<>>, y |-> <<>>],
     name |-> [root |-> Name.root, a |-> Name.a, b |-> Name.b,
               x |-> Name.x, y |-> Name.y],
     initial |-> [root |-> <<"a">>, a |-> <<"x">>, b |-> <<"y">>,
                  x |-> <<>>, y |-> <<>>],
     on |-> [root |-> [GO |-> <<To(Name.b)>>],
             a |-> <<>>, b |-> <<>>, x |-> <<>>, y |-> <<>>],
     onEvent |-> [root |-> <<>>, a |-> <<>>, b |-> <<>>, x |-> <<>>,
                  y |-> <<>>],
     onEnter |-> [root |-> <<>>, a |-> <<>>, x |-> <<>>,
                  b |-> <<<<Do("third")>>>>, y |-> <<<<Do("fourth")>>>>],
     onExit |-> [root |-> <<>>, b |-> <<>>, y |-> <<>>,
                 a |-> <<<<Do("first")>>>>, x |-> <<<<Do("second")>>>>],
     repeat |-> [root |-> <<>>, a |-> <<>>, b |-> <<>>,
                 x |-> <<[delay |-> TRUE, event |-> <<Item>>]>>,
                 y |-> <<[delay |-> TRUE, event |-> <<Item>>]>>],
     events |-> {"GO"},
     sends |-> MaxRelayed,
     builds |-> {FALSE}]

Configs ==
    [counter |-> Counter, toggle |-> Toggle, loop |-> Loop, relay |-> Relay,
     regions |-> Regions, enter |-> Enter, power |-> Power, lost |-> Lost,
     faulty |-> Faulty, secret |-> Secret, ticker |-> Ticker,
     fetch |-> Fetch, delay |-> Delay, boot |-> Boot,
     fan |-> Fan, twins |-> Twins, race |-> Race,
     order |-> Order]

\* the named results, conditions and actions of the designs
Result(g, c) ==
    CASE g = "one" -> Num(1)
      [] OTHER -> c.payload

Condition(k, c) ==
    CASE k = "isZero" -> c.data.count = 0
      [] k = "never" -> FALSE
      [] OTHER -> TRUE

Action(a, c) ==
    CASE a = "incr" -> [c EXCEPT !.data.count = @ + 1]
      [] a = "twice" -> [c EXCEPT !.data.count = 2 * @]
      [] a = "first" -> [c EXCEPT !.data.count = 5 * @ + 1]
      [] a = "second" -> [c EXCEPT !.data.count = 5 * @ + 2]
      [] a = "third" -> [c EXCEPT !.data.count = 5 * @ + 3]
      [] a = "fourth" -> [c EXCEPT !.data.count = 5 * @ + 4]
      [] a = "keep" -> IF c.result.t = "num"
                       THEN [c EXCEPT !.data.count = c.result.v] ELSE c
      [] OTHER -> c

(* ----------------------------- state tree ------------------------------ *)

Nodes(d) == DOMAIN d.states

Parent(d, n) == CHOOSE p \in Nodes(d) : n \in Range(d.states[p])

\* path = parentPath + "." + name; the root's path is id + ".root"
RECURSIVE NodePath(_, _)
NodePath(d, n) ==
    IF n = "root" THEN d.id \o <<".">> \o d.name[n]
    ELSE NodePath(d, Parent(d, n)) \o <<".">> \o d.name[n]

\* branch if it declares an initial child, parallel if it has children only
NodeType(d, n) ==
    IF d.initial[n] # <<>> THEN "branch"
    ELSE IF d.states[n] # <<>> THEN "parallel"
    ELSE "leaf"

RECURSIVE DepthFirst(_, _)
RECURSIVE DepthFirstAll(_, _)
DepthFirst(d, n) == <<n>> \o DepthFirstAll(d, d.states[n])

DepthFirstAll(d, ns) ==
    IF ns = <<>> THEN <<>>
    ELSE DepthFirst(d, Head(ns)) \o DepthFirstAll(d, Tail(ns))

\* a node and its descendants, as listed in the built tree
Subtree(d, n) == d.subtree[n]

\* the nodes as created: inactive, no timer handles (0 is undefined),
\* history = initial
NewNodes(d) ==
    [n \in Nodes(d) |->
        [active |-> FALSE,
         history |-> d.initial[n],
         times |-> [interval |-> 0, animationFrame |-> 0]]]

\* getStateTreeFromConfig(config, id), the fields of the nodes that never
\* change: the design with every node's path and the nodes in tree order
StateTreeFromConfig(config) ==
    [k \in DOMAIN config \cup {"path", "order", "subtree", "repeat", "async",
                              "values", "payloads"} |->
        CASE k = "path" -> [n \in Nodes(config) |-> NodePath(config, n)]
          [] k = "values" /\ k \notin DOMAIN config -> {}
          [] k = "payloads" /\ k \notin DOMAIN config -> {Undefined}
          [] k \in {"repeat", "async"} /\ k \notin DOMAIN config ->
                [n \in Nodes(config) |-> <<>>]
          [] k = "order" -> DepthFirst(config, "root")
          [] k = "subtree" ->
                [n \in Nodes(config) |-> Range(DepthFirst(config, n))]
          [] OTHER -> config[k]]

Designs == [dn \in DOMAIN Configs |-> StateTreeFromConfig(Configs[dn])]

\* the active nodes listed deepest first
GetActiveStatesReversed(d, tree) ==
    LET active == SelectSeq(d.order, LAMBDA n : tree[n].active)
    IN  [i \in 1..Len(active) |-> active[Len(active) + 1 - i]]

\* StateTree.getActiveStates: depth-first list of the nodes flagged active
GetActiveStates(d, tree) ==
    SelectSeq(d.order, LAMBDA n : tree[n].active)

ActiveChildren(d, tree, n) ==
    SelectSeq(d.states[n], LAMBDA k : tree[k].active)

\* StateTree.deactivateState: record the active child of every branch node
\* of the subtree into history, then clear every active flag of the subtree
DeactivateState(d, tree, node) ==
    [n \in Nodes(d) |->
        IF n \notin Subtree(d, node) THEN tree[n]
        ELSE [tree[n] EXCEPT
                !.active = FALSE,
                !.history =
                    IF NodeType(d, n) = "branch"
                       /\ ActiveChildren(d, tree, n) # <<>>
                    THEN <<Head(ActiveChildren(d, tree, n))>>
                    ELSE @]]

ChildNamed(d, n, nm) == CHOOSE k \in Range(d.states[n]) : d.name[k] = nm

RECURSIVE Activate(_, _, _, _, _, _)
RECURSIVE ActivateChildren(_, _, _, _, _, _)
\* activate(node, pathDown, isPrevious, isRestore)
Activate(d, tree, node, pathDown, isPrevious, isRestore) ==
    LET on == [tree EXCEPT ![node].active = TRUE]
        chosen ==
            IF pathDown # <<>> THEN ChildNamed(d, node, Head(pathDown))
            ELSE IF isPrevious /\ tree[node].history # <<>>
                 THEN tree[node].history[1]
                 ELSE d.initial[node][1]
    IN  CASE NodeType(d, node) = "leaf" -> on
          [] NodeType(d, node) = "parallel" ->
                ActivateChildren(d, on, d.states[node], pathDown,
                                 isPrevious, isRestore)
          [] OTHER ->
                Activate(d, [on EXCEPT ![node].history = <<chosen>>], chosen,
                         IF pathDown # <<>> THEN Tail(pathDown) ELSE <<>>,
                         IF pathDown # <<>> THEN isPrevious ELSE isRestore,
                         isRestore)

ActivateChildren(d, tree, kids, pathDown, isPrevious, isRestore) ==
    IF kids = <<>> THEN tree
    ELSE LET k == Head(kids)
             onPath == pathDown # <<>> /\ d.name[k] = Head(pathDown)
         IN  ActivateChildren(d,
                 Activate(d, tree, k,
                          IF onPath THEN Tail(pathDown) ELSE <<>>,
                          isPrevious, isRestore),
                 Tail(kids), pathDown, isPrevious, isRestore)

\* getStateTreeFromConfig: the tree as built, its initial states active
\* (createStateDesigner reads core.active from it, then deactivates it and
\* "activates it again")
BuiltTree(d) == Activate(d, NewNodes(d), "root", <<>>, FALSE, FALSE)

\* StateTree.activateState(root, pathDown, isPrevious, isRestore): pathDown
\* still starts with the root's own segment, which selects no child
ActivateState(d, tree, pathDown, isPrevious, isRestore) ==
    Activate(d, tree, "root", Tail(pathDown), isPrevious, isRestore)

\* StateTree.findTransitionTargets: the nodes, in the builder's order, whose
\* path ends with "." + path or is the path itself
FindTransitionTargets(d, path) ==
    SelectSeq(d.order,
              LAMBDA n : \/ EndsWith(d.path[n], <<".">> \o path)
                         \/ d.path[n] = path)

(* ------------------------------- state --------------------------------- *)

VARIABLES
    cfg,            \* config: the design the instance was created from,
                    \* as built by getStateTreeFromConfig
    dev,            \* __DEV__ of the build
    current,        \* { data, payload, result }
    update,         \* { process, transitions, didTransition, didAction }
    core,           \* the observable fields of the instance: data, active,
                    \* values
    stateTree,      \* core.stateTree: active, history, times of every node
    subscribers,    \* the set of subscribed callbacks
    sendQueue,      \* the queue of sent events
    tasks,          \* the suspended or running async call chains
    running,        \* the call chains on the JavaScript stack, innermost last
    calls,          \* how often each callback was called
    sendCalls,      \* send() calls made by the callers of the instance
    enqueued,       \* events pushed to sendQueue so far
    dispatched,     \* the events shifted from sendQueue, in order
    notifications,  \* runs of notifySubscribers
    timers,         \* the host's live intervals and requested frames
    ticks,          \* ticks the host has delivered
    awaits,         \* the promises of async.await, in the order made
    original        \* what the instance clone() was called on showed

vars ==
    <<cfg, dev, current, update, core, stateTree, subscribers, sendQueue,
      tasks, running, calls, sendCalls, enqueued, dispatched,
      notifications, timers, ticks, awaits, original>>

\* the host's timers and promises
host == <<timers, ticks, awaits>>

D == cfg

Subs == {"s1"}

TaskIds == 1..(3 * MaxSends + MaxTicks + 2)

NoUpdate ==
    [didAction |-> FALSE, didTransition |-> FALSE,
     send |-> <<>>, transition |-> <<>>]

NewTask(frame) ==
    [stack |-> <<frame>>, ret |-> NoUpdate, acted |-> FALSE, hops |-> 0]

\* config.values[k](data): the computed values of the designs
Value(k, data) ==
    CASE k = "double" -> 2 * data.count
      [] OTHER -> data.count

\* getValues(data): every function of config.values applied to the data
GetValues(data) == [k \in D.values |-> Value(k, data)]

Init ==
    /\ cfg \in {Designs[dn] : dn \in DOMAIN Designs}
    /\ dev \in D.builds
    /\ current = [data |-> D.data, payload |-> Undefined, result |-> Undefined]
    /\ update = [process |-> Undefined, transitions |-> 0,
                 didTransition |-> FALSE, didAction |-> FALSE]
    /\ stateTree = BuiltTree(D)
    /\ core = [data |-> D.data, active |-> GetActiveStates(D, BuiltTree(D)),
               values |-> GetValues(D.data)]
    /\ subscribers = {}
    /\ sendQueue = <<>>
    /\ tasks = [t \in {1} |->
                   NewTask([fn |-> "createStateDesigner", pc |-> "kickoff"])]
    /\ running = <<1>>
    /\ calls = [s \in Subs |-> 0]
    /\ sendCalls = 0
    /\ enqueued = 0
    /\ dispatched = <<>>
    /\ notifications = 0
    /\ timers = {}
    /\ ticks = 0
    /\ awaits = <<>>
    /\ original = <<>>

(* --------------------------- call chains ------------------------------- *)

\* the innermost frame of chain t
Top(t) == Last(tasks[t].stack)

\* chain t can take a step: it is the innermost running chain, or nothing
\* is running and the event loop resumes it from its await
CanRun(t) ==
    /\ t \in DOMAIN tasks
    /\ running # <<>> => t = Last(running)

At(t, fn, pc) == CanRun(t) /\ Top(t).fn = fn /\ Top(t).pc = pc

\* chain t goes on running
Stay(t) == running' = IF running = <<>> THEN <<t>> ELSE running

\* chain t reaches an await (or its end): control goes back to the chain
\* that called into it, or to the event loop
Yield(t) == running' = IF running = <<>> THEN <<>> ELSE Front(running)

Without(ts, t) == [x \in (DOMAIN ts) \ {t} |-> ts[x]]

\* the chain's innermost frame becomes f
Goto(t, f) == [tasks EXCEPT ![t].stack = Front(@) \o <<f>>]

\* the chain's innermost frame becomes f and calls the frames fs
Call(t, f, fs) == [tasks EXCEPT ![t].stack = Front(@) \o <<f>> \o fs]

\* the innermost async function returns: its frame is dropped, and the
\* chain ends when that was its outermost frame
Returned(t, ts) ==
    IF Len(ts[t].stack) = 1 THEN Without(ts, t)
    ELSE [ts EXCEPT ![t].stack = Front(@)]

\* the event being dispatched by the chain, 0 when it is not a queue drain
Dispatching(t) ==
    IF tasks[t].stack[1].fn = "processSendQueue"
       /\ tasks[t].stack[1].pc = "await"
    THEN tasks[t].stack[1].next.n ELSE 0

FreeId == CHOOSE i \in TaskIds \ DOMAIN tasks :
              \A j \in TaskIds \ DOMAIN tasks : i <= j

\* a handler chain of the design is named by its slot, state and event
Handler(slot, state, event) ==
    [slot |-> slot, state |-> state, event |-> event]

\* state.repeat and state.async of the design, <<>> when undefined
Repeat(n) == D.repeat[n]

Async(n) == D.async[n]

EventHandler(h) ==
    CASE h.slot = "on" -> D.on[h.state][h.event]
      [] h.slot = "repeat" -> Repeat(h.state)[1].event
      [] h.slot = "onResolve" -> Async(h.state)[1].onResolve[1]
      [] h.slot = "onReject" -> Async(h.state)[1].onReject[1]
      [] h.slot = "onEvent" -> D.onEvent[h.state][1]
      [] h.slot = "onEnter" -> D.onEnter[h.state][1]
      [] h.slot = "onExit" -> D.onExit[h.state][1]

\* runOnThreadEventHandler(eventHandler) up to the call of produce(current, ..)
HandlerFrames(eventHandler) ==
    <<[fn |-> "runOnThreadEventHandler", pc |-> "await"],
      [fn |-> "runEventHandler", pc |-> "item", eventHandler |-> eventHandler,
       i |-> 1, c |-> current, localUpdate |-> NoUpdate, passed |-> TRUE]>>

(* ------------------------------ actions -------------------------------- *)

\* setCurrent(changes)
SetCurrent(c) ==
    /\ current' = c
    /\ core' = [core EXCEPT !.data = c.data]

\* notifySubscribers()
NotifySubscribers ==
    /\ core' = [core EXCEPT !.values = GetValues(core.data),
                             !.active = GetActiveStates(D, stateTree)]
    /\ calls' = [s \in Subs |-> IF s \in subscribers THEN calls[s] + 1
                                ELSE calls[s]]
    /\ notifications' = notifications + 1

\* onUpdate(callbackFn); the callers subscribe before they send
OnUpdate(s) ==
    /\ running = <<>>
    /\ sendCalls = 0
    /\ s \notin subscribers
    /\ subscribers' = subscribers \cup {s}
    /\ UNCHANGED original
    /\ UNCHANGED <<cfg, dev, current, update, core, stateTree, sendQueue,
                   tasks, running, calls, sendCalls, enqueued, dispatched,
                   notifications>>
    /\ UNCHANGED host

\* send(eventName, payload) up to the call of processSendQueue()
SendCall(e, by) ==
    /\ sendQueue' = Append(sendQueue, [event |-> e.event,
                                       payload |-> e.payload,
                                       n |-> enqueued + 1, by |-> by])
    /\ enqueued' = enqueued + 1

\* the update.process test of send(): a drain is started unless one is set
StartsDrain == update.process = Undefined

\* a caller of the instance calls send
Send(e) ==
    /\ running = <<>>
    /\ sendCalls < D.sends
    /\ e \in D.events
    /\ sendCalls' = sendCalls + 1
    /\ \E payload \in D.payloads :
          SendCall([event |-> e, payload |-> payload], 0)
    /\ IF StartsDrain
       THEN /\ tasks' = [t \in DOMAIN tasks \cup {FreeId} |->
                          IF t = FreeId
                          THEN NewTask([fn |-> "processSendQueue",
                                        pc |-> "start"])
                          ELSE tasks[t]]
            /\ running' = <<FreeId>>
       ELSE UNCHANGED <<tasks, running>>
    /\ UNCHANGED original
    /\ UNCHANGED <<cfg, dev, current, update, core, stateTree, subscribers,
                   calls, dispatched, notifications>>
    /\ UNCHANGED host

\* a kickoff that leaves the tree as it was built
KickoffTreeKept(tree) == tree

\* StateTree.deactivateState(core.stateTree) of the kickoff
KickoffTree(tree) == DeactivateState(D, tree, "root")

\* the kickoff of createStateDesigner: deactivate the tree and call
\* runTransition(() => "root")
Kickoff(t) ==
    /\ At(t, "createStateDesigner", "kickoff")
    /\ stateTree' = KickoffTree(stateTree)
    /\ tasks' = Goto(t, [fn |-> "runTransition", pc |-> "start",
                      targetFn |-> Name.root])
    /\ UNCHANGED original
    /\ UNCHANGED <<cfg, dev, current, update, core, subscribers, sendQueue,
                   running, calls, sendCalls, enqueued, dispatched, notifications>>
    /\ UNCHANGED host

\* trimEnd(string, chars) of lodash: drops every trailing character that
\* occurs in chars
RECURSIVE TrimEnd(_, _)
TrimEnd(s, chars) ==
    IF s # <<>> /\ Last(s) \in Range(chars) THEN TrimEnd(Front(s), chars)
    ELSE s

\* runTransition re-activating from the target instead of the root
TransitionTreeFromTarget(tree, target, isPrevious, isRestore) ==
    Activate(D, DeactivateState(D, tree, "root"), target, <<>>,
             isPrevious \/ isRestore, isRestore)

\* runTransition re-activating without deactivating the tree first
TransitionTreeKeeping(tree, target, isPrevious, isRestore) ==
    ActivateState(D, tree, Tail(Split(D.path[target])),
                  isPrevious \/ isRestore, isRestore)

\* runTransition re-activating every branch by its history
TransitionTreeByHistory(tree, target, isPrevious, isRestore) ==
    ActivateState(D, DeactivateState(D, tree, "root"),
                  Tail(Split(D.path[target])), TRUE, TRUE)

\* the deactivation and re-activation of the tree by runTransition
TransitionTree(tree, target, isPreviousTransition, isRestoreTransition) ==
    ActivateState(D, DeactivateState(D, tree, "root"),
                  Tail(Split(D.path[target])),
                  isPreviousTransition \/ isRestoreTransition,
                  isRestoreTransition)

\* state.times.interval = undefined / state.times.animationFrame =
\* undefined on the deactivated states
ClearTimes(tree, states) ==
    [n \in Nodes(D) |->
        IF n \in Range(states)
        THEN [tree[n] EXCEPT !.times = [interval |-> 0, animationFrame |-> 0]]
        ELSE tree[n]]

\* clearInterval(interval) / cancelAnimationFrame(animationFrame) on the
\* deactivated states: the host drops the timers the handles name
ClearTimers(tree, states) ==
    {x \in timers : \A n \in Range(states) :
        x.h \notin {tree[n].times.interval, tree[n].times.animationFrame}}

\* the handle the host gives to the next timer
FreeHandle ==
    LET used == {x.h : x \in timers}
                    \cup {stateTree[n].times.interval : n \in Nodes(D)}
                    \cup {stateTree[n].times.animationFrame : n \in Nodes(D)}
    IN  CHOOSE h \in 1..(Cardinality(used) + 1) :
            /\ h \notin used
            /\ \A g \in 1..(h - 1) : g \in used

\* state.times.animationFrame = requestAnimationFrame(loop)
RequestAnimationFrame(state) ==
    /\ timers' = timers \cup
                    {[h |-> FreeHandle, state |-> state, kind |-> "frame"]}
    /\ stateTree' = [stateTree EXCEPT
                        ![state].times.animationFrame = FreeHandle]

\* state.times.interval = setInterval(.., Math.max(1 / 60, s * 1000))
SetInterval(state) ==
    /\ timers' = timers \cup
                    {[h |-> FreeHandle, state |-> state, kind |-> "interval"]}
    /\ stateTree' = [stateTree EXCEPT ![state].times.interval = FreeHandle]

\* the repeat of an activated state is started
StartRepeat(state) ==
    IF Repeat(state) = <<>> THEN UNCHANGED <<stateTree, timers>>
    ELSE IF Repeat(state)[1].delay THEN SetInterval(state)
    ELSE RequestAnimationFrame(state)

\* async.await(current.data, current.payload, current.result).then(..)
StartAsync(state) ==
    awaits' = IF Async(state) = <<>> THEN awaits
              ELSE Append(awaits, [state |-> state, status |-> "pending",
                                   value |-> Undefined, result |-> <<>>,
                                   done |-> FALSE, notified |-> 0])

\* an error thrown in the chain rejects every caller awaiting it
Thrown(t) ==
    /\ tasks' = Without(tasks, t)
    /\ Yield(t)

\* the innermost async function returns to the caller awaiting it
Return(t) ==
    /\ tasks' = Returned(t, tasks)
    /\ Yield(t)

\* the path of a transition: the target function's string without a
\* trailing ".previous" / ".restore"
TransitionPath(targetFn) ==
    LET trimmed == IF EndsWith(targetFn, cPrevious)
                   THEN TrimEnd(targetFn, cPrevious) ELSE targetFn
    IN  IF EndsWith(targetFn, cRestore)
        THEN TrimEnd(trimmed, cRestore) ELSE trimmed

\* const targets = StateTree.findTransitionTargets(core.stateTree, path)
TransitionTargets(targetFn) ==
    FindTransitionTargets(D, TransitionPath(targetFn))

\* an unknown target with the tree deactivated before the target is tested
UnknownTargetDeactivated(tree) == DeactivateState(D, tree, "root")

\* the tree after a transition whose target is undefined: runTransition
\* throws or returns before it touches the tree
UnknownTarget(tree) == tree

\* the tree after runTransition(targetFn) has re-activated it
TransitionResult(tree, targetFn) ==
    IF TransitionTargets(targetFn) = <<>> THEN UnknownTarget(tree)
    ELSE TransitionTree(tree, Last(TransitionTargets(targetFn)),
                        EndsWith(targetFn, cPrevious),
                        EndsWith(targetFn, cRestore))

\* runTransition(targetFn) from the target's evaluation to the clearing of
\* the timers of the deactivated states
RunTransitionStart(t) ==
    /\ At(t, "runTransition", "start")
    /\ LET targets == TransitionTargets(Top(t).targetFn)
           beforeActive == GetActiveStates(D, stateTree)
           after == TransitionResult(stateTree, Top(t).targetFn)
           afterActive == GetActiveStates(D, after)
           deactivatedStates ==
               SelectSeq(beforeActive, LAMBDA n : n \notin Range(afterActive))
           activatedStates ==
               SelectSeq(afterActive, LAMBDA n : n \notin Range(beforeActive))
       IN  IF targets = <<>>
           THEN /\ IF dev THEN Thrown(t) ELSE Return(t)
                /\ stateTree' = after
                /\ UNCHANGED timers
           ELSE /\ stateTree' = ClearTimes(after, deactivatedStates)
                /\ timers' = ClearTimers(after, deactivatedStates)
                /\ tasks' = Goto(t, [fn |-> "runTransition", pc |-> "exit",
                                  targetFn |-> Top(t).targetFn,
                                  deactivatedStates |-> deactivatedStates,
                                  activatedStates |-> activatedStates,
                                  currentTransitions |-> update.transitions])
                /\ Stay(t)
    /\ UNCHANGED original
    /\ UNCHANGED <<cfg, dev, current, update, core, subscribers, sendQueue,
                   calls, sendCalls, enqueued, dispatched, notifications,
                   ticks, awaits>>

\* the loop over the deactivated states: run the next onExit chain
RunTransitionExit(t) ==
    /\ At(t, "runTransition", "exit")
    /\ LET rest == [Top(t) EXCEPT !.deactivatedStates = Tail(@)]
       IN  IF Top(t).deactivatedStates = <<>>
           THEN tasks' = Goto(t, [Top(t) EXCEPT !.pc = "enter"])
           ELSE IF D.onExit[Head(Top(t).deactivatedStates)] # <<>>
           THEN tasks' = Call(t, [rest EXCEPT !.pc = "afterExit"],
                    HandlerFrames(Handler("onExit",
                        Head(Top(t).deactivatedStates), "")))
           ELSE tasks' = Goto(t, rest)
    /\ UNCHANGED original
    /\ UNCHANGED <<cfg, dev, current, update, core, stateTree, subscribers,
                   sendQueue, running, calls, sendCalls, enqueued, dispatched,
                   notifications>>
    /\ UNCHANGED host

\* after an onExit chain: bail if a transition was counted meanwhile
RunTransitionAfterExit(t) ==
    /\ At(t, "runTransition", "afterExit")
    /\ IF update.transitions > Top(t).currentTransitions
       THEN Return(t)
       ELSE /\ tasks' = Goto(t, [Top(t) EXCEPT !.pc = "exit"])
            /\ Stay(t)
    /\ UNCHANGED original
    /\ UNCHANGED <<cfg, dev, current, update, core, stateTree, subscribers,
                   sendQueue, calls, sendCalls, enqueued, dispatched,
                   notifications>>
    /\ UNCHANGED host

\* the loop over the activated states: start the state's repeat, then run
\* its onEnter chain; without one, start its async and go on
RunTransitionEnter(t) ==
    /\ At(t, "runTransition", "enter")
    /\ IF Top(t).activatedStates = <<>>
       THEN /\ Return(t)
            /\ UNCHANGED <<stateTree, timers, awaits>>
       ELSE /\ StartRepeat(Head(Top(t).activatedStates))
            /\ IF D.onEnter[Head(Top(t).activatedStates)] # <<>>
               THEN /\ tasks' = Call(t, [Top(t) EXCEPT !.pc = "afterEnter"],
                            HandlerFrames(Handler("onEnter",
                                Head(Top(t).activatedStates), "")))
                    /\ UNCHANGED awaits
               ELSE /\ tasks' = Goto(t, [Top(t) EXCEPT
                                            !.activatedStates = Tail(@)])
                    /\ StartAsync(Head(Top(t).activatedStates))
            /\ Stay(t)
    /\ UNCHANGED original
    /\ UNCHANGED <<cfg, dev, current, update, core, subscribers,
                   sendQueue, calls, sendCalls, enqueued, dispatched,
                   notifications, ticks>>

\* after an onEnter chain: bail if a transition was counted meanwhile
RunTransitionAfterEnter(t) ==
    /\ At(t, "runTransition", "afterEnter")
    /\ IF update.transitions > Top(t).currentTransitions
       THEN /\ Return(t)
            /\ UNCHANGED awaits
       ELSE /\ tasks' = Goto(t, [Top(t) EXCEPT !.pc = "enter",
                                       !.activatedStates = Tail(@)])
            /\ StartAsync(Head(Top(t).activatedStates))
            /\ Stay(t)
    /\ UNCHANGED original
    /\ UNCHANGED <<cfg, dev, current, update, core, stateTree, subscribers,
                   sendQueue, calls, sendCalls, enqueued, dispatched,
                   notifications, timers, ticks>>

RECURSIVE RunGets(_, _)
\* for (let resu of item.get) c.result = resu(c.data, c.payload, c.result)
RunGets(gets, c) ==
    IF gets = <<>> THEN c
    ELSE RunGets(Tail(gets), [c EXCEPT !.result = Result(Head(gets), c)])

RECURSIVE RunActions(_, _)
\* for (let action of item.do) action(c.data, c.payload, c.result)
RunActions(actions, c) ==
    IF actions = <<>> THEN c
    ELSE RunActions(Tail(actions), Action(Head(actions), c))

\* an action of the list throws
Throws(actions) == "throw" \in Range(actions)

\* a throw with the mutations made so far kept: actions working on the
\* data itself
ThrownDraftKept(c) == c

\* what a chain that throws leaves as current: produce revokes the draft
\* and rejects, setCurrent is not reached
ThrownDraft(c) == current

\* the if / unless / ifAny guards of an item
PassedConditions(item, c) ==
    LET passedIf ==
            item.if # <<>> =>
                \A i \in 1..Len(item.if) : Condition(item.if[i], c)
        passedUnless ==
            (passedIf /\ item.unless # <<>>) =>
                \A i \in 1..Len(item.unless) : ~Condition(item.unless[i], c)
        passedIfAny ==
            (passedIf /\ passedUnless /\ item.ifAny # <<>>) =>
                \E i \in 1..Len(item.ifAny) : Condition(item.ifAny[i], c)
    IN  passedIf /\ passedUnless /\ passedIfAny

\* setUpdate({ transitions: update.transitions++ }): the post-increment
\* yields the old count, which Object.assign then writes over the new one
CountTransition(u) ==
    LET incremented == [u EXCEPT !.transitions = @ + 1]
        argument == u.transitions
    IN  [incremented EXCEPT !.transitions = argument]

\* the do/send/to branch of an item (the else branch when the guards
\* failed): f is the runEventHandler frame with the guards evaluated
Branch(t, f) ==
    LET item == EventHandler(f.eventHandler)[f.i]
        actions == IF f.passed THEN item.do ELSE item.elseDo
        sendFn == IF f.passed THEN item.send ELSE item.elseSend
        toFn == IF f.passed THEN item.to ELSE item.elseTo
        acted == [f EXCEPT
                    !.c = RunActions(actions, f.c),
                    !.localUpdate.didAction = @ \/ actions # <<>>,
                    !.localUpdate.send = IF sendFn # <<>> THEN sendFn ELSE @]
    IN  IF Throws(actions)
        THEN /\ Thrown(t)
             /\ SetCurrent(ThrownDraft(f.c))
             /\ UNCHANGED update
        ELSE IF toFn = <<>>
        THEN /\ tasks' = [Goto(t, [acted EXCEPT !.i = @ + 1, !.pc = "item"])
                            EXCEPT ![t].acted = @ \/ actions # <<>>]
             /\ Stay(t)
             /\ UNCHANGED <<update, current, core>>
        ELSE IF update.transitions > LoopLimit
        THEN /\ IF dev
                THEN Thrown(t)
                ELSE /\ tasks' = [Goto(t, [acted EXCEPT !.pc = "commit"])
                                    EXCEPT ![t].acted = @ \/ actions # <<>>]
                     /\ Yield(t)
             /\ UNCHANGED <<update, current, core>>
        ELSE /\ tasks[t].hops < MaxHops
             /\ UNCHANGED <<current, core>>
             /\ update' = CountTransition(update)
             /\ tasks' = [Goto(t, [acted EXCEPT
                                  !.localUpdate.didTransition = TRUE,
                                  !.localUpdate.transition = toFn,
                                  !.pc = "commit"])
                            EXCEPT ![t].acted = TRUE,
                                   ![t].hops = @ + 1]
             /\ Yield(t)

\* an item whose wait is skipped
WaitsNever(item) == FALSE

\* if (item.wait): the chain awaits the item's timeout
Waits(item) == item.wait # <<>>

\* one turn of the loop over the items of a chain, up to its wait
RunEventHandlerItem(t) ==
    /\ At(t, "runEventHandler", "item")
    /\ IF Top(t).i > Len(EventHandler(Top(t).eventHandler))
       THEN /\ tasks' = Goto(t, [Top(t) EXCEPT !.pc = "commit"])
            /\ Yield(t)
            /\ UNCHANGED <<update, current, core>>
       ELSE LET item == EventHandler(Top(t).eventHandler)[Top(t).i]
                c == RunGets(item.get, Top(t).c)
                f == [Top(t) EXCEPT !.c = c, !.passed = PassedConditions(item, c)]
            IN  IF Waits(item)
                THEN /\ tasks' = Goto(t, [f EXCEPT !.pc = "wait"])
                     /\ Yield(t)
                     /\ UNCHANGED <<update, current, core>>
                ELSE Branch(t, f)
    /\ UNCHANGED original
    /\ UNCHANGED <<cfg, dev, stateTree, subscribers,
                   sendQueue, calls, sendCalls, enqueued, dispatched,
                   notifications>>
    /\ UNCHANGED host

\* the timeout of an item's wait has fired
RunEventHandlerWaited(t) ==
    /\ At(t, "runEventHandler", "wait")
    /\ Branch(t, Top(t))
    /\ UNCHANGED original
    /\ UNCHANGED <<cfg, dev, stateTree, subscribers,
                   sendQueue, calls, sendCalls, enqueued, dispatched,
                   notifications>>
    /\ UNCHANGED host

\* the event a handler evaluated in chain t sends: which dispatch made it
SentBy(t) == Dispatching(t)

\* setCurrent(await produce(..)), then send(localUpdate.send) if defined
RunEventHandlerCommit(t) ==
    /\ At(t, "runEventHandler", "commit")
    /\ SetCurrent(Top(t).c)
    /\ IF Top(t).localUpdate.send # <<>>
       THEN /\ SendCall(Top(t).localUpdate.send[1], SentBy(t))
            /\ IF StartsDrain
               THEN /\ tasks' =
                        [x \in DOMAIN tasks \cup {FreeId} |->
                            IF x = FreeId
                            THEN NewTask([fn |-> "processSendQueue",
                                          pc |-> "start"])
                            ELSE Goto(t, [Top(t) EXCEPT
                                            !.pc = "transition"])[x]]
                    /\ running' = Append(IF running = <<>> THEN <<t>>
                                           ELSE running, FreeId)
               ELSE /\ tasks' = Goto(t, [Top(t) EXCEPT !.pc = "transition"])
                    /\ Stay(t)
       ELSE /\ tasks' = Goto(t, [Top(t) EXCEPT !.pc = "transition"])
            /\ Stay(t)
            /\ UNCHANGED <<sendQueue, enqueued>>
    /\ UNCHANGED original
    /\ UNCHANGED <<cfg, dev, update, stateTree, subscribers, calls, sendCalls,
                   dispatched, notifications>>
    /\ UNCHANGED host

\* if the chain made a transition, run it; else return localUpdate
RunEventHandlerTransition(t) ==
    /\ At(t, "runEventHandler", "transition")
    /\ IF Top(t).localUpdate.transition # <<>>
       THEN /\ tasks' = Call(t, [Top(t) EXCEPT !.pc = "return"],
                             <<[fn |-> "runTransition", pc |-> "start",
                                targetFn |-> Top(t).localUpdate.transition[1]]>>)
            /\ Stay(t)
       ELSE /\ tasks' = [Returned(t, tasks) EXCEPT ![t].ret = Top(t).localUpdate]
            /\ Yield(t)
    /\ UNCHANGED original
    /\ UNCHANGED <<cfg, dev, current, update, core, stateTree, subscribers,
                   sendQueue, calls, sendCalls, enqueued, dispatched,
                   notifications>>
    /\ UNCHANGED host

\* return localUpdate, after the awaited runTransition
RunEventHandlerReturn(t) ==
    /\ At(t, "runEventHandler", "return")
    /\ tasks' = [Returned(t, tasks) EXCEPT ![t].ret = Top(t).localUpdate]
    /\ Yield(t)
    /\ UNCHANGED original
    /\ UNCHANGED <<cfg, dev, current, update, core, stateTree, subscribers,
                   sendQueue, calls, sendCalls, enqueued, dispatched,
                   notifications>>
    /\ UNCHANGED host

\* runOnThreadEventHandler after its await: merge localUpdate into update
RunOnThreadEventHandler(t) ==
    /\ At(t, "runOnThreadEventHandler", "await")
    /\ update' = [update EXCEPT
                    !.didAction = @ \/ tasks[t].ret.didAction,
                    !.didTransition = @ \/ tasks[t].ret.didTransition]
    /\ Return(t)
    /\ UNCHANGED original
    /\ UNCHANGED <<cfg, dev, current, core, stateTree, subscribers,
                   sendQueue, calls, sendCalls, enqueued, dispatched,
                   notifications>>
    /\ UNCHANGED host

\* a call chain the host starts: runOffThreadEventHandler(eventHandler)
\* called by the callback whose frame is given, after its setCurrent
OffThread(frame, eventHandler, c) ==
    [x \in DOMAIN tasks \cup {FreeId} |->
        IF x = FreeId
        THEN [NewTask(frame) EXCEPT
                !.stack = @ \o <<[HandlerFrames(eventHandler)[2]
                                     EXCEPT !.c = c]>>]
        ELSE tasks[x]]

\* a tick of a delay-driven repeat: the callback of setInterval up to its
\* await
IntervalTick(x) ==
    /\ running = <<>>
    /\ x \in timers
    /\ x.kind = "interval"
    /\ ticks < MaxTicks
    /\ ticks' = ticks + 1
    /\ SetCurrent([current EXCEPT !.result = Elapsed])
    /\ tasks' = OffThread([fn |-> "repeat", pc |-> "await",
                           state |-> x.state, kind |-> x.kind],
                          Handler("repeat", x.state, ""),
                          [current EXCEPT !.result = Elapsed])
    /\ running' = <<FreeId>>
    /\ UNCHANGED original
    /\ UNCHANGED <<cfg, dev, update, stateTree, subscribers, sendQueue,
                   calls, sendCalls, enqueued, dispatched, notifications,
                   timers, awaits>>

\* a tick of a frame-driven repeat: loop(now) up to its await; the
\* requested frame is spent
FrameTick(x) ==
    /\ running = <<>>
    /\ x \in timers
    /\ x.kind = "frame"
    /\ ticks < MaxTicks
    /\ ticks' = ticks + 1
    /\ timers' = timers \ {x}
    /\ SetCurrent([current EXCEPT !.result = Elapsed])
    /\ tasks' = OffThread([fn |-> "repeat", pc |-> "await",
                           state |-> x.state, kind |-> x.kind],
                          Handler("repeat", x.state, ""),
                          [current EXCEPT !.result = Elapsed])
    /\ running' = <<FreeId>>
    /\ UNCHANGED original
    /\ UNCHANGED <<cfg, dev, update, stateTree, subscribers, sendQueue,
                   calls, sendCalls, enqueued, dispatched, notifications,
                   awaits>>

\* a tick after its await: notify if the chain acted; loop(now) then
\* requests the next frame
RepeatNotify(t) ==
    /\ At(t, "repeat", "await")
    /\ IF tasks[t].ret.didAction \/ tasks[t].ret.didTransition
       THEN NotifySubscribers
       ELSE UNCHANGED <<core, calls, notifications>>
    /\ IF Top(t).kind = "frame"
       THEN RequestAnimationFrame(Top(t).state)
       ELSE UNCHANGED <<stateTree, timers>>
    /\ Return(t)
    /\ UNCHANGED original
    /\ UNCHANGED <<cfg, dev, current, update, subscribers, sendQueue,
                   sendCalls, enqueued, dispatched, ticks, awaits>>

\* a settled await whose setCurrent({ result }) was left out
SettledResultLost(v) == current.result

\* setCurrent({ result }) of the callbacks of async.await(..).then
SettledResult(v) == Num(v)

\* the promise of async.await resolves with v: the first callback of then
\* up to its await
Resolve(p, v) ==
    /\ running = <<>>
    /\ p \in DOMAIN awaits
    /\ awaits[p].status = "pending"
    /\ SetCurrent([current EXCEPT !.result = SettledResult(v)])
    /\ tasks' = OffThread([fn |-> "async", pc |-> "await", p |-> p],
                          Handler("onResolve", awaits[p].state, ""),
                          [current EXCEPT !.result = SettledResult(v)])
    /\ running' = <<FreeId>>
    /\ awaits' = [awaits EXCEPT ![p].status = "resolved",
                                ![p].value = Num(v),
                                ![p].result = Append(@, SettledResult(v))]
    /\ UNCHANGED original
    /\ UNCHANGED <<cfg, dev, update, stateTree, subscribers, sendQueue,
                   calls, sendCalls, enqueued, dispatched, notifications,
                   timers, ticks>>

\* the promise of async.await rejects with v: the second callback of then
\* up to its await, or all of it when the state has no onReject
Reject(p, v) ==
    /\ running = <<>>
    /\ p \in DOMAIN awaits
    /\ awaits[p].status = "pending"
    /\ IF Async(awaits[p].state)[1].onReject = <<>>
       THEN /\ awaits' = [awaits EXCEPT ![p].status = "rejected",
                                        ![p].value = Num(v),
                                        ![p].done = TRUE]
            /\ UNCHANGED <<current, core, tasks, running>>
       ELSE /\ SetCurrent([current EXCEPT !.result = SettledResult(v)])
            /\ tasks' = OffThread([fn |-> "async", pc |-> "await", p |-> p],
                                  Handler("onReject", awaits[p].state, ""),
                                  [current EXCEPT
                                     !.result = SettledResult(v)])
            /\ running' = <<FreeId>>
            /\ awaits' = [awaits EXCEPT
                             ![p].status = "rejected",
                             ![p].value = Num(v),
                             ![p].result = Append(@, SettledResult(v))]
    /\ UNCHANGED original
    /\ UNCHANGED <<cfg, dev, update, stateTree, subscribers, sendQueue,
                   calls, sendCalls, enqueued, dispatched, notifications,
                   timers, ticks>>

\* a callback of then after its await: notify if the chain acted
AsyncNotify(t) ==
    /\ At(t, "async", "await")
    /\ IF tasks[t].ret.didAction \/ tasks[t].ret.didTransition
       THEN /\ NotifySubscribers
            /\ awaits' = [awaits EXCEPT ![Top(t).p].done = TRUE,
                                        ![Top(t).p].notified = @ + 1]
       ELSE /\ UNCHANGED <<core, calls, notifications>>
            /\ awaits' = [awaits EXCEPT ![Top(t).p].done = TRUE]
    /\ Return(t)
    /\ UNCHANGED original
    /\ UNCHANGED <<cfg, dev, current, update, stateTree, subscribers,
                   sendQueue, sendCalls, enqueued, dispatched, timers, ticks>>

\* the frame of handleEventOnState(state, sent)
EventFrame(state, sent) ==
    [fn |-> "handleEventOnState", pc |-> "start", state |-> state,
     sent |-> sent, activeChildren |-> <<>>]

\* handleEventOnState from its entry to its first await
HandleEventOnState(t) ==
    /\ At(t, "handleEventOnState", "start")
    /\ LET f == [Top(t) EXCEPT !.activeChildren =
                              ActiveChildren(D, stateTree, Top(t).state)]
       IN  IF ~stateTree[Top(t).state].active
           THEN Return(t)
           ELSE /\ IF Top(t).sent.event \in DOMAIN D.on[Top(t).state]
                   THEN tasks' = Call(t, [f EXCEPT !.pc = "afterOn"],
                            HandlerFrames(Handler("on", Top(t).state,
                                                  Top(t).sent.event)))
                   ELSE IF D.onEvent[Top(t).state] # <<>>
                   THEN tasks' = Call(t, [f EXCEPT !.pc = "afterOnEvent"],
                            HandlerFrames(Handler("onEvent", Top(t).state, "")))
                   ELSE tasks' = Goto(t, [f EXCEPT !.pc = "children"])
                /\ Stay(t)
    /\ UNCHANGED original
    /\ UNCHANGED <<cfg, dev, current, update, core, stateTree, subscribers,
                   sendQueue, calls, sendCalls, enqueued, dispatched,
                   notifications>>
    /\ UNCHANGED host

\* after the on[event] chain: return on a transition, else run onEvent
HandleEventAfterOn(t) ==
    /\ At(t, "handleEventOnState", "afterOn")
    /\ IF update.didTransition
       THEN Return(t)
       ELSE /\ IF D.onEvent[Top(t).state] # <<>>
               THEN tasks' = Call(t, [Top(t) EXCEPT !.pc = "afterOnEvent"],
                        HandlerFrames(Handler("onEvent", Top(t).state, "")))
               ELSE tasks' = Goto(t, [Top(t) EXCEPT !.pc = "children"])
            /\ Stay(t)
    /\ UNCHANGED original
    /\ UNCHANGED <<cfg, dev, current, update, core, stateTree, subscribers,
                   sendQueue, calls, sendCalls, enqueued, dispatched,
                   notifications>>
    /\ UNCHANGED host

\* after the onEvent chain: return on a transition
HandleEventAfterOnEvent(t) ==
    /\ At(t, "handleEventOnState", "afterOnEvent")
    /\ IF update.didTransition
       THEN Return(t)
       ELSE /\ tasks' = Goto(t, [Top(t) EXCEPT !.pc = "children"])
            /\ Stay(t)
    /\ UNCHANGED original
    /\ UNCHANGED <<cfg, dev, current, update, core, stateTree, subscribers,
                   sendQueue, calls, sendCalls, enqueued, dispatched,
                   notifications>>
    /\ UNCHANGED host

\* the loop over the children that were active on entry
HandleEventChildren(t) ==
    /\ At(t, "handleEventOnState", "children")
    /\ IF Top(t).activeChildren = <<>> \/ update.didTransition
       THEN Return(t)
       ELSE /\ tasks' = Call(t, [Top(t) EXCEPT !.activeChildren = Tail(@)],
                             <<EventFrame(Head(Top(t).activeChildren), Top(t).sent)>>)
            /\ Stay(t)
    /\ UNCHANGED original
    /\ UNCHANGED <<cfg, dev, current, update, core, stateTree, subscribers,
                   sendQueue, calls, sendCalls, enqueued, dispatched,
                   notifications>>
    /\ UNCHANGED host

\* reading the head of the queue and leaving it there: sendQueue[0]
Peek(queue) == [next |-> Head(queue), queue |-> queue]

\* const next = sendQueue.shift()
Shift(queue) == [next |-> Head(queue), queue |-> Tail(queue)]

\* what `await handleEventOnState(..)` yields for update.process
AwaitedProcess == Undefined

\* processSendQueue from its entry to the call of handleEventOnState
ProcessSendQueue(t) ==
    /\ At(t, "processSendQueue", "start")
    /\ IF sendQueue = <<>>
       THEN /\ update' = [update EXCEPT !.didAction = FALSE,
                                        !.didTransition = FALSE,
                                        !.process = Undefined,
                                        !.transitions = 0]
            /\ Return(t)
            /\ UNCHANGED <<current, core, sendQueue, dispatched>>
       ELSE /\ update' = [update EXCEPT !.didAction = FALSE,
                                        !.didTransition = FALSE]
            /\ sendQueue' = Shift(sendQueue).queue
            /\ dispatched' = Append(dispatched, Shift(sendQueue).next.n)
            /\ SetCurrent([current EXCEPT
                             !.payload = Shift(sendQueue).next.payload,
                             !.result = Undefined])
            /\ tasks' = [Call(t, [fn |-> "processSendQueue", pc |-> "await",
                                  next |-> Shift(sendQueue).next],
                              <<EventFrame("root", Shift(sendQueue).next)>>)
                            EXCEPT ![t].acted = FALSE, ![t].hops = 0]
            /\ Stay(t)
    /\ UNCHANGED original
    /\ UNCHANGED <<cfg, dev, stateTree, subscribers, calls, sendCalls, enqueued,
                   notifications>>
    /\ UNCHANGED host

\* processSendQueue after the event was handled: notify, then go on with
\* the next event of the queue
ProcessSendQueueNotify(t) ==
    /\ At(t, "processSendQueue", "await")
    /\ update' = [update EXCEPT !.process = AwaitedProcess]
    /\ IF update.didAction \/ update.didTransition
       THEN NotifySubscribers
       ELSE UNCHANGED <<core, calls, notifications>>
    /\ tasks' = Goto(t, [fn |-> "processSendQueue", pc |-> "start"])
    /\ Stay(t)
    /\ UNCHANGED original
    /\ UNCHANGED <<cfg, dev, current, stateTree, subscribers, sendQueue,
                   sendCalls, enqueued, dispatched>>
    /\ UNCHANGED host

Next ==
    \/ \E s \in Subs : OnUpdate(s)
    \/ \E e \in D.events : Send(e)
    \/ \E t \in TaskIds : Kickoff(t)
    \/ \E t \in TaskIds : RunTransitionStart(t)
    \/ \E t \in TaskIds : RunTransitionExit(t)
    \/ \E t \in TaskIds : RunTransitionAfterExit(t)
    \/ \E t \in TaskIds : RunTransitionEnter(t)
    \/ \E t \in TaskIds : RunTransitionAfterEnter(t)
    \/ \E t \in TaskIds : RunEventHandlerItem(t)
    \/ \E t \in TaskIds : RunEventHandlerWaited(t)
    \/ \E t \in TaskIds : RunEventHandlerCommit(t)
    \/ \E t \in TaskIds : RunEventHandlerTransition(t)
    \/ \E t \in TaskIds : RunEventHandlerReturn(t)
    \/ \E t \in TaskIds : RunOnThreadEventHandler(t)
    \/ \E t \in TaskIds : HandleEventOnState(t)
    \/ \E t \in TaskIds : HandleEventAfterOn(t)
    \/ \E t \in TaskIds : HandleEventAfterOnEvent(t)
    \/ \E t \in TaskIds : HandleEventChildren(t)
    \/ \E t \in TaskIds : ProcessSendQueue(t)
    \/ \E t \in TaskIds : ProcessSendQueueNotify(t)
    \/ \E x \in timers : IntervalTick(x)
    \/ \E x \in timers : FrameTick(x)
    \/ \E t \in TaskIds : RepeatNotify(t)
    \/ \E p \in DOMAIN awaits : \E v \in 1..MaxValue : Resolve(p, v)
    \/ \E p \in DOMAIN awaits : \E v \in 1..MaxValue : Reject(p, v)
    \/ \E t \in TaskIds : AsyncNotify(t)

Spec == Init /\ [][Next]_vars

\* a step of a call chain: the event loop runs every continuation and
\* every timer callback that is due
ChainStep ==
    \E t \in TaskIds :
        \/ Kickoff(t)
        \/ RunTransitionStart(t)
        \/ RunTransitionExit(t)
        \/ RunTransitionAfterExit(t)
        \/ RunTransitionEnter(t)
        \/ RunTransitionAfterEnter(t)
        \/ RunEventHandlerItem(t)
        \/ RunEventHandlerWaited(t)
        \/ RunEventHandlerCommit(t)
        \/ RunEventHandlerTransition(t)
        \/ RunEventHandlerReturn(t)
        \/ RunOnThreadEventHandler(t)
        \/ HandleEventOnState(t)
        \/ HandleEventAfterOn(t)
        \/ HandleEventAfterOnEvent(t)
        \/ HandleEventChildren(t)
        \/ ProcessSendQueue(t)
        \/ ProcessSendQueueNotify(t)
        \/ RepeatNotify(t)
        \/ AsyncNotify(t)

\* an instance created from the design with the async state
AsyncInit == Init /\ cfg.id = Fetch.id

\* the steps of that instance: it has no repeat, no wait and no onEnter,
\* onExit or onEvent chain, and its states have no children that handle
\* events, so the actions for those never apply to it
AsyncNext ==
    \/ \E s \in Subs : OnUpdate(s)
    \/ \E e \in D.events : Send(e)
    \/ \E t \in TaskIds : Kickoff(t)
    \/ \E t \in TaskIds : RunTransitionStart(t)
    \/ \E t \in TaskIds : RunTransitionExit(t)
    \/ \E t \in TaskIds : RunTransitionEnter(t)
    \/ \E t \in TaskIds : RunEventHandlerItem(t)
    \/ \E t \in TaskIds : RunEventHandlerCommit(t)
    \/ \E t \in TaskIds : RunEventHandlerTransition(t)
    \/ \E t \in TaskIds : RunEventHandlerReturn(t)
    \/ \E t \in TaskIds : RunOnThreadEventHandler(t)
    \/ \E t \in TaskIds : HandleEventOnState(t)
    \/ \E t \in TaskIds : HandleEventAfterOn(t)
    \/ \E t \in TaskIds : ProcessSendQueue(t)
    \/ \E t \in TaskIds : ProcessSendQueueNotify(t)
    \/ \E p \in DOMAIN awaits : \E v \in 1..MaxValue : Resolve(p, v)
    \/ \E p \in DOMAIN awaits : \E v \in 1..MaxValue : Reject(p, v)
    \/ \E t \in TaskIds : AsyncNotify(t)

\* that instance under an event loop that never starves a call chain
FairSpec == AsyncInit /\ [][AsyncNext]_vars /\ WF_vars(ChainStep)

(* ------------------------------ claims --------------------------------- *)

\* the call chains that drain the send queue
Drains == {t \in DOMAIN tasks : tasks[t].stack[1].fn = "processSendQueue"}

\* the drains that took an event from the queue and have not yet finished
\* its dispatch (propagation, transitions and notification)
InDispatch == {t \in Drains : tasks[t].stack[1].pc = "await"}

Next_(t) == tasks[t].stack[1].next

\* chain t is evaluating a handler chain
Evaluating(t) ==
    \E i \in 1..Len(tasks[t].stack) : tasks[t].stack[i].fn = "runEventHandler"

\* every call chain has ended and the queue is empty: every promise
\* returned by send has resolved
Settled == DOMAIN tasks = {} /\ sendQueue = <<>>

\* C1: sends serialize - while an event sent earlier is still in dispatch,
\* no handler chain is being evaluated for an event sent after it.
C1_SendsSerialize ==
    \A t1 \in InDispatch : \A t2 \in InDispatch :
        (Next_(t1).by = 0 /\ Next_(t2).by = 0 /\ Next_(t1).n < Next_(t2).n)
            => ~Evaluating(t2)

\* C2: at most one drain of the send queue is in progress at any time.
C2_OneDrain == Cardinality(Drains) <= 1

\* C3: in the counter design, once k back-to-back send("INCR") calls have
\* all resolved, data.count is k and every subscriber was called k times.
C3_NoActionLost ==
    (cfg.id = Counter.id /\ Settled) =>
        /\ current.data.count = sendCalls
        /\ \A s \in subscribers : calls[s] = sendCalls

\* C4: an event produced by a handler item's send is not in dispatch while
\* the event whose handler produced it is still in dispatch.
C4_SentEventWaits ==
    \A t1 \in InDispatch : \A t2 \in InDispatch :
        Next_(t2).by # Next_(t1).n

\* C5: events are taken from the queue, and begin their propagation, in
\* the order in which they were enqueued (the i-th event taken is the i-th
\* event enqueued).
C5_FifoDispatch ==
    \A i \in 1..Len(dispatched) : dispatched[i] = i

C5_Witness ==
    /\ Len(dispatched) = 2
    /\ Cardinality(InDispatch) = 2

\* C6: at the end of an event's dispatch the subscribers are notified if
\* and only if handling that event executed a do action or took a
\* transition.
C6_NotifyIff ==
    [][\A t \in TaskIds :
          ProcessSendQueueNotify(t) =>
              ((notifications' = notifications + 1) <=> tasks[t].acted)]_vars

\* C7: the loop guard cuts a cascade of onEnter transitions off - no call
\* chain takes more than LoopLimit + 1 transitions.
C7_LoopGuardCuts ==
    \A t \in DOMAIN tasks : tasks[t].hops <= LoopLimit + 1

\* C8: every active state other than the root has an active parent.
C8_ActiveParent ==
    \A n \in Nodes(D) \ {"root"} :
        stateTree[n].active => stateTree[Parent(D, n)].active

C8_Witness ==
    /\ cfg.id = Regions.id
    /\ stateTree["n"].active
    /\ stateTree["x"].active
    /\ DOMAIN tasks = {}

ActiveKids(n) == {k \in Range(D.states[n]) : stateTree[k].active}

\* C9: a branch node has at most one active child, exactly one when it is
\* active itself; a parallel node has all of its children active or none.
C9_BranchParallel ==
    \A n \in Nodes(D) :
        /\ NodeType(D, n) = "branch" =>
              /\ Cardinality(ActiveKids(n)) <= 1
              /\ stateTree[n].active => Cardinality(ActiveKids(n)) = 1
        /\ NodeType(D, n) = "parallel" =>
              ActiveKids(n) \in {{}, Range(D.states[n])}

C9_Witness ==
    /\ cfg.id = Regions.id
    /\ stateTree["y"].active
    /\ stateTree["m"].active
    /\ DOMAIN tasks = {}

\* C10: after any send has resolved, the cached active list equals the
\* depth-first list of the nodes whose active flag is set.
C10_ActiveListFresh ==
    (Settled /\ sendCalls > 0) =>
        core.active = GetActiveStates(D, stateTree)

Branches == {n \in Nodes(D) : NodeType(D, n) = "branch"}

\* the active nodes of the subtree of n
ActiveIn(tree, n) == {k \in Subtree(D, n) : tree[k].active}

\* every active branch node of the subtree of n has its initial child active
InitialBelow(tree, n) ==
    \A b \in Subtree(D, n) \cap Branches :
        tree[b].active => tree[D.initial[b][1]].active

\* C11: a transition to "X.previous", X a branch node that is not active
\* and whose most recently active child was Y, makes Y active, with the
\* branch nodes below Y at their initial child.
C11_PreviousChild ==
    [][\A t \in TaskIds : \A X \in Branches :
          (/\ RunTransitionStart(t)
           /\ Top(t).targetFn = D.name[X] \o cPrevious
           /\ ~stateTree[X].active)
          => /\ stateTree'[stateTree[X].history[1]].active
             /\ InitialBelow(stateTree', stateTree[X].history[1])]_vars

RECURSIVE HistoryConfig(_, _)
\* the nodes that were active beneath n (n included) when n was last exited
HistoryConfig(tree, n) ==
    {n} \cup
    CASE NodeType(D, n) = "branch" -> HistoryConfig(tree, tree[n].history[1])
      [] NodeType(D, n) = "parallel" ->
            UNION {HistoryConfig(tree, k) : k \in Range(D.states[n])}
      [] OTHER -> {}

\* C12: a transition to "X.restore", X not active, makes the active nodes
\* of the subtree of X exactly those that were active when X was exited.
C12_RestoreSubtree ==
    [][\A t \in TaskIds : \A X \in Nodes(D) :
          (/\ RunTransitionStart(t)
           /\ Top(t).targetFn = D.name[X] \o cRestore
           /\ ~stateTree[X].active)
          => ActiveIn(stateTree', X) = HistoryConfig(stateTree, X)]_vars

\* C13: from every reachable tree, a transition to a branch node X and a
\* transition to "X.<initial child of X>" give the same active states.
C13_BranchOrInitial ==
    \A X \in Branches :
        GetActiveStates(D, TransitionResult(stateTree, D.name[X])) =
        GetActiveStates(D, TransitionResult(stateTree,
            D.name[X] \o <<".">> \o D.name[D.initial[X][1]]))

\* a transition to the branch node power was made while off was active
C13_Witness ==
    /\ cfg.id = Power.id
    /\ \E t \in DOMAIN tasks :
          /\ Top(t).fn = "runTransition"
          /\ Top(t).pc = "exit"
          /\ Top(t).targetFn = Name.power
          /\ Top(t).deactivatedStates = <<"off">>
          /\ stateTree["red"].active

\* the child regions of active parallel nodes other than the one the
\* target of the transition lies in
SiblingRegions(tree, target) ==
    {S \in Nodes(D) \ {"root"} :
        /\ NodeType(D, Parent(D, S)) = "parallel"
        /\ tree[Parent(D, S)].active
        /\ target \notin Subtree(D, S)
        /\ target \in Subtree(D, Parent(D, S)) \ {Parent(D, S)}}

\* C14 as claimed: a transition whose target lies inside one region of a
\* parallel node leaves the active states of every sibling region as they
\* were.
C14_SiblingRegions ==
    [][\A t \in TaskIds :
          (/\ RunTransitionStart(t)
           /\ TransitionTargets(Top(t).targetFn) # <<>>)
          => \A S \in SiblingRegions(stateTree,
                        Last(TransitionTargets(Top(t).targetFn))) :
                ActiveIn(stateTree', S) = ActiveIn(stateTree, S)]_vars

RECURSIVE InitialConfig(_)
\* the nodes active beneath n (n included) when n is entered afresh
InitialConfig(n) ==
    {n} \cup
    CASE NodeType(D, n) = "branch" -> InitialConfig(D.initial[n][1])
      [] NodeType(D, n) = "parallel" ->
            UNION {InitialConfig(k) : k \in Range(D.states[n])}
      [] OTHER -> {}

\* C14, amended: a transition without ".previous" / ".restore" whose
\* target lies inside one region of a parallel node re-activates every
\* sibling region at its initial configuration.
C14_SiblingsReset ==
    [][\A t \in TaskIds :
          (/\ RunTransitionStart(t)
           /\ TransitionTargets(Top(t).targetFn) # <<>>
           /\ ~EndsWith(Top(t).targetFn, cPrevious)
           /\ ~EndsWith(Top(t).targetFn, cRestore))
          => \A S \in SiblingRegions(stateTree,
                        Last(TransitionTargets(Top(t).targetFn))) :
                ActiveIn(stateTree', S) = InitialConfig(S)]_vars

\* the transition to "b.n" was made while y was active in region a
C14_Witness ==
    /\ cfg.id = Regions.id
    /\ \E t \in DOMAIN tasks :
          /\ Top(t).fn = "runTransition"
          /\ Top(t).pc = "exit"
          /\ Top(t).targetFn = Name.b \o <<".">> \o Name.n
          /\ "y" \in Range(Top(t).deactivatedStates)
          /\ stateTree["x"].active

\* C19: a transition whose path matches no node leaves the state tree as
\* it was and runs no onExit / onEnter chain: runTransition is left at once.
C19_UnknownTarget ==
    [][\A t \in TaskIds :
          (/\ RunTransitionStart(t)
           /\ TransitionTargets(Top(t).targetFn) = <<>>)
          => /\ stateTree' = stateTree
             /\ t \in DOMAIN tasks' =>
                   tasks'[t].stack = Front(tasks[t].stack)]_vars

\* the dev build has thrown on the unknown target of LOST
C19_Witness ==
    /\ cfg.id = Lost.id
    /\ dev
    /\ dispatched = <<1>>
    /\ DOMAIN tasks = {}
    /\ stateTree["low"].active
    /\ current.data.count = 0

\* chain t, dispatching a sent event, is about to run a throwing action
AboutToThrow(t) ==
    /\ t \in DOMAIN tasks
    /\ tasks[t].stack[1].fn = "processSendQueue"
    /\ Top(t).fn = "runEventHandler"
    /\ Top(t).pc = "item"
    /\ Top(t).i <= Len(EventHandler(Top(t).eventHandler))
    /\ Throws(EventHandler(Top(t).eventHandler)[Top(t).i].do)

\* C18: when an action throws in a chain evaluated for a sent event, the
\* chain of calls up to send is rejected and none of the chain's mutations
\* reach data, those of its earlier items included.
C18_ThrowDiscards ==
    [][\A t \in TaskIds :
          (AboutToThrow(t) /\ RunEventHandlerItem(t))
          => /\ t \notin DOMAIN tasks'
             /\ current' = current
             /\ core'.data = core.data]_vars

\* FAIL has been dispatched and has thrown after its first item counted
C18_Witness ==
    /\ cfg.id = Faulty.id
    /\ dispatched = <<1>>
    /\ DOMAIN tasks = {}
    /\ current.data.count = 0

\* C20: secretlyDo mutates data and secretlyTo changes the active set like
\* do and to, without a notification: once the HUSH events sent have been
\* handled, each has counted, high is active and no subscriber was called.
C20_SecretEffects ==
    (cfg.id = Secret.id /\ Settled)
        => /\ current.data.count = sendCalls
           /\ sendCalls > 0 => stateTree["high"].active
           /\ notifications = 0

\* C15: a state with a repeat that is not active holds no interval or
\* animation-frame handle and the host has no live timer of it, so no tick
\* of it runs until it is entered again; whatever caused the exit.
C15_NoTimerAfterExit ==
    \A n \in Nodes(D) :
        (Repeat(n) # <<>> /\ ~stateTree[n].active)
            => /\ stateTree[n].times.interval = 0
               /\ stateTree[n].times.animationFrame = 0
               /\ \A x \in timers : x.state # n

\* C16: an await that settles while its state is not active is ignored: no
\* onResolve / onReject chain is started, and data, result, the active set
\* and the subscribers stay as they are.
C16_LateResultIgnored ==
    [][\A p \in DOMAIN awaits : \A v \in 1..MaxValue :
          ((Resolve(p, v) \/ Reject(p, v))
              /\ ~stateTree[awaits[p].state].active)
          => UNCHANGED <<current, core, stateTree, tasks, calls,
                         notifications>>]_vars

\* the await p has settled
HasSettled(p) ==
    /\ p \in DOMAIN awaits
    /\ awaits[p].status \in {"resolved", "rejected"}

\* the chain a settled await evaluates: onResolve, or onReject
SettledHandler(p) ==
    Handler(IF awaits[p].status = "resolved" THEN "onResolve" ELSE "onReject",
            awaits[p].state, "")

\* the chain has an item with actions or a transition (the chains of the
\* async states have no guards)
ChainActs(h) ==
    \E i \in 1..Len(EventHandler(h)) :
        EventHandler(h)[i].do # <<>> \/ EventHandler(h)[i].to # <<>>

\* the completion of await p has been handled: its chain was evaluated
\* once, with the settled value as result, and the subscribers were
\* notified once if the chain acts and not at all if it does not
Completed(p) ==
    /\ HasSettled(p)
    /\ awaits[p].done
    /\ awaits[p].result = <<awaits[p].value>>
    /\ awaits[p].notified = IF ChainActs(SettledHandler(p)) THEN 1 ELSE 0

\* C17: once the await of an entered async state has settled with value v,
\* its onResolve chain (onReject on rejection) is eventually evaluated,
\* exactly once and with result = v, and the subscribers are notified
\* exactly once for that completion when the chain acted; nothing is
\* evaluated or notified a second time.
C17_ResolveOnce ==
    /\ \A p \in 1..MaxSends : HasSettled(p) ~> Completed(p)
    /\ [](\A p \in DOMAIN awaits :
            Len(awaits[p].result) <= 1 /\ awaits[p].notified <= 1)

\* loading was entered, its await resolved, and the onResolve chain kept
\* the value and notified once
C17_Witness ==
    /\ cfg.id = Fetch.id
    /\ Len(awaits) = 1
    /\ awaits[1].status = "resolved"
    /\ Completed(1)
    /\ current.data.count = awaits[1].value.v
    /\ stateTree["loading"].active
    /\ DOMAIN tasks = {}

\* chain t is suspended in the wait of an item
Waiting(t) ==
    /\ t \in DOMAIN tasks
    /\ Top(t).fn = "runEventHandler"
    /\ Top(t).pc = "wait"

\* chain t is about to evaluate an item that has a wait
AtWaitItem(t) ==
    /\ t \in DOMAIN tasks
    /\ Top(t).fn = "runEventHandler"
    /\ Top(t).pc = "item"
    /\ Top(t).i <= Len(EventHandler(Top(t).eventHandler))
    /\ EventHandler(Top(t).eventHandler)[Top(t).i].wait # <<>>

C22_ValuesCurrent ==
    DOMAIN tasks = {} => core.values = GetValues(current.data)

\* isIn(path): some state of the cached active list has a path ending
\* with the path, a "." put before it when it has none
IsIn(path) ==
    LET p == IF path[1] = "." THEN path ELSE <<".">> \o path
    IN  \E i \in 1..Len(core.active) : EndsWith(D.path[core.active[i]], p)

\* the n-th event the callers sent was e, and the drain send started for
\* it has not ended
SentPending(n, e) ==
    \E t \in DOMAIN tasks :
       /\ tasks[t].stack[1].fn = "processSendQueue"
       /\ tasks[t].stack[1].pc = "await"
       /\ tasks[t].stack[1].next.n = n
       /\ tasks[t].stack[1].next.event = e

\* C23: once the send calls made so far have returned (no synchronous code
\* of the instance is running), the effects of the events they sent are
\* visible although their promises are pending: data holds what the
\* actions did, and isIn answers for the state the transition entered.
C23_VisibleOnReturn ==
    running = <<>> =>
        /\ cfg.id = Counter.id => core.data.count = sendCalls
        /\ (cfg.id = Toggle.id /\ sendCalls = 1 /\ SentPending(1, "T"))
              => IsIn(Name.high) /\ ~IsIn(Name.low)

\* the events the send functions of a chain's items produce, in item order
SendsOf(handler) ==
    LET sending == SelectSeq(handler, LAMBDA item : item.send # <<>>)
    IN  [i \in 1..Len(sending) |-> sending[i].send[1].event]

\* every item of the chain passes and only the last one may transition, so
\* that the chain runs the branch of every item
RunsEveryItem(handler) ==
    \A i \in 1..Len(handler) :
       /\ handler[i].if = <<>>
       /\ handler[i].unless = <<>>
       /\ handler[i].ifAny = <<>>
       /\ i < Len(handler) => handler[i].to = <<>>

EventsOf(queue) == [i \in 1..Len(queue) |-> queue[i].event]

\* C29: when a chain has run the branch of every one of its items, the
\* events its items produced are all put on the queue, one per item and
\* in the order of the items.
C29_EverySendEnqueued ==
    [][\A t \in TaskIds :
          (/\ t \in DOMAIN tasks
           /\ Top(t).fn = "runEventHandler"
           /\ RunsEveryItem(EventHandler(Top(t).eventHandler))
           /\ RunEventHandlerCommit(t))
             => EventsOf(sendQueue') =
                   EventsOf(sendQueue)
                      \o SendsOf(EventHandler(Top(t).eventHandler))]_vars

\* this step, chain t takes the to / elseTo transition of an item
TakesTransition(t) ==
    /\ t \in DOMAIN tasks
    /\ t \in DOMAIN tasks'
    /\ Top(t).fn = "runEventHandler"
    /\ Top(t).pc \in {"item", "wait"}
    /\ Top(t)'.fn = "runEventHandler"
    /\ Top(t)'.pc = "commit"
    /\ Top(t)'.localUpdate.transition # <<>>

\* this step, processSendQueue finds the queue empty
FindsQueueEmpty ==
    /\ sendQueue = <<>>
    /\ \E t \in TaskIds : ProcessSendQueue(t)

\* C28: the transition counter counts the to / elseTo transitions taken
\* since the queue was last found empty: every transition taken adds one,
\* nothing else changes it but the reset when the queue is found empty,
\* and it never exceeds the limit.
C28_TransitionsCounted ==
    [][/\ (\E t \in TaskIds : TakesTransition(t))
             => update'.transitions = update.transitions + 1
       /\ (update'.transitions # update.transitions
           /\ ~\E t \in TaskIds : TakesTransition(t))
             => update'.transitions = 0 /\ FindsQueueEmpty
       /\ update'.transitions <= LoopLimit]_vars

\* this step, the innermost call of chain t returns
Returns(t) ==
    t \in DOMAIN tasks' => Len(tasks'[t].stack) < Len(tasks[t].stack)

\* C27: when the onExit or onEnter chain a transition has just run took a
\* transition itself, the transition is abandoned there: it returns, with
\* no further onExit or onEnter chain, no repeat started for the states
\* still to enter and no async started for the state whose onEnter
\* transitioned.
C27_TransitionAbandoned ==
    [][\A t \in TaskIds :
          (/\ t \in DOMAIN tasks
           /\ tasks[t].ret.didTransition
           /\ RunTransitionAfterExit(t) \/ RunTransitionAfterEnter(t))
             => /\ Returns(t)
                /\ UNCHANGED <<timers, awaits, stateTree>>]_vars

\* chain t was started by a tick of a repeat or by the settling of an
\* await: everything it runs is off-thread
OffThreadChain(t) ==
    /\ t \in DOMAIN tasks
    /\ tasks[t].stack[1].fn \in {"repeat", "async"}

\* this step is a step of chain t
StepOf(t) ==
    /\ t \in DOMAIN tasks
    /\ t \in DOMAIN tasks' => tasks'[t] # tasks[t]

\* C30: no step of an off-thread chain, the transitions it performs and
\* the onExit / onEnter chains they run included, changes the didAction
\* and didTransition flags or the transition counter of the main drain.
C30_OffThreadLeavesUpdate ==
    [][\A t \in TaskIds :
          (OffThreadChain(t) /\ StepOf(t))
             => /\ update'.didAction = update.didAction
                /\ update'.didTransition = update.didTransition
                /\ update'.transitions = update.transitions]_vars

\* the guards of an item as can evaluates them: against the current data,
\* the payload given and the result the item's gets compute from undefined
CanPass(item, payload) ==
    PassedConditions(item,
        RunGets(item.get, [data |-> current.data, payload |-> payload,
                           result |-> Undefined]))

\* the callback can passes to find: the state has a chain for the event
\* with an item whose guards pass
CanOnState(n, eventName, payload) ==
    /\ eventName \in DOMAIN D.on[n]
    /\ \E i \in 1..Len(D.on[n][eventName]) :
          CanPass(D.on[n][eventName][i], payload)

\* can(eventName, payload): searches the cached active list
Can(eventName, payload) ==
    \E i \in 1..Len(core.active) :
       CanOnState(core.active[i], eventName, payload)

\* the events the design has a chain for, and one it has none for
EventNames ==
    UNION {DOMAIN D.on[n] : n \in Nodes(D)} \cup {"UNKNOWN"}

\* C25: whenever a caller can call it, can(event, payload) is true exactly
\* when some state whose active flag is set has an on[event] chain with an
\* item whose guards pass for the current data, the payload and the result
\* of that item's gets.
C25_CanIffActiveHandler ==
    running = <<>> =>
        \A e \in EventNames, p \in {Undefined, Num(1)} :
           Can(e, p) <=>
              \E n \in Nodes(D) : stateTree[n].active /\ CanOnState(n, e, p)

\* chain t is the construction: the runTransition(() => "root") of the
\* kickoff with everything it awaits
Constructing(t) ==
    /\ t \in DOMAIN tasks
    /\ tasks[t].stack[1].fn = "runTransition"
    /\ tasks[t].stack[1].pc # "start"

\* the states the tree built from the design has active, outermost first
InitialStates == GetActiveStates(D, BuiltTree(D))

\* s is what is left of list when some of its first elements are dropped
IsSuffix(s, list) ==
    /\ Len(s) <= Len(list)
    /\ s = SubSeq(list, Len(list) - Len(s) + 1, Len(list))

\* no onEnter chain of the design transitions
PlainEntry ==
    \A n \in Nodes(D) :
       D.onEnter[n] # <<>> =>
          \A i \in 1..Len(D.onEnter[n][1]) :
             D.onEnter[n][1][i].to = <<>> /\ D.onEnter[n][1][i].elseTo = <<>>

\* the construction has ended and nothing else has happened: no event
\* sent, no tick delivered, no await settled
Constructed ==
    /\ DOMAIN tasks = {}
    /\ sendCalls = 0
    /\ ticks = 0
    /\ \A p \in 1..Len(awaits) : awaits[p].status = "pending"

Clone ==
    /\ Settled
    /\ original = <<>>
    /\ original' = <<[sendCalls |-> sendCalls, data |-> core.data,
                      active |-> core.active, values |-> core.values]>>
    /\ current' = [data |-> D.data, payload |-> Undefined,
                   result |-> Undefined]
    /\ update' = [process |-> Undefined, transitions |-> 0,
                  didTransition |-> FALSE, didAction |-> FALSE]
    /\ stateTree' = BuiltTree(D)
    /\ core' = [data |-> D.data, active |-> GetActiveStates(D, BuiltTree(D)),
                values |-> GetValues(D.data)]
    /\ subscribers' = {}
    /\ sendQueue' = <<>>
    /\ tasks' = [t \in {1} |->
                    NewTask([fn |-> "createStateDesigner", pc |-> "kickoff"])]
    /\ running' = <<1>>
    /\ calls' = [s \in Subs |-> 0]
    /\ sendCalls' = 0
    /\ enqueued' = 0
    /\ dispatched' = <<>>
    /\ notifications' = 0
    /\ timers' = {}
    /\ ticks' = 0
    /\ awaits' = <<>>
    /\ UNCHANGED <<cfg, dev>>

\* an instance of the design with the one event INCR
CloneInit == Init /\ cfg.id = Counter.id

\* the steps of that instance and of its clone: the design has no
\* transition but the one of the construction, no wait, no repeat, no
\* async and no onEvent chain, so the actions for those never apply
CloneNext ==
    \/ \E s \in Subs : OnUpdate(s)
    \/ \E e \in D.events : Send(e)
    \/ \E t \in TaskIds : Kickoff(t)
    \/ \E t \in TaskIds : RunTransitionStart(t)
    \/ \E t \in TaskIds : RunTransitionExit(t)
    \/ \E t \in TaskIds : RunTransitionEnter(t)
    \/ \E t \in TaskIds : RunEventHandlerItem(t)
    \/ \E t \in TaskIds : RunEventHandlerCommit(t)
    \/ \E t \in TaskIds : RunEventHandlerTransition(t)
    \/ \E t \in TaskIds : RunOnThreadEventHandler(t)
    \/ \E t \in TaskIds : HandleEventOnState(t)
    \/ \E t \in TaskIds : HandleEventAfterOn(t)
    \/ \E t \in TaskIds : HandleEventChildren(t)
    \/ \E t \in TaskIds : ProcessSendQueue(t)
    \/ \E t \in TaskIds : ProcessSendQueueNotify(t)
    \/ Clone

\* that instance, then its clone
CloneSpec == CloneInit /\ [][CloneNext]_vars

\* C24: an instance and its clone that were sent the same sequence of
\* events (in a design with one event: the same number of events), each
\* from its construction on, show the same data, the same active list
\* and the same values once their sends have resolved.
C24_CloneBehavesAlike ==
    (/\ original # <<>>
     /\ Cardinality(D.events) = 1
     /\ Settled
     /\ sendCalls = original[1].sendCalls)
       => /\ core.data = original[1].data
          /\ core.active = original[1].active
          /\ core.values = original[1].values

\* C35: for every state of the tree, named by its name or by its path,
\* the targets "P.previous" and "P.restore" resolve to the nodes the
\* target "P" resolves to: nothing but the suffix is removed.
C35_SuffixOnly ==
    \A n \in Nodes(D) : \A P \in {D.name[n], D.path[n]} :
       /\ TransitionTargets(P \o cPrevious) = TransitionTargets(P)
       /\ TransitionTargets(P \o cRestore) = TransitionTargets(P)

\* the depth of a node: the number of segments its path has after the id
Depth(n) ==
    Cardinality({i \in 1..Len(D.path[n]) : D.path[n][i] = "."})

\* C34: when the path a transition names matches several nodes, the
\* target chosen, the last of the matches, is one of maximal depth.
C34_DeepestTarget ==
    \A n \in Nodes(D) :
       LET targets == TransitionTargets(D.name[n])
       IN  \A i \in 1..Len(targets) :
              Depth(Last(targets)) >= Depth(targets[i])

\* this step, chain t starts to evaluate an on[event] or onEvent chain
EvaluatesChain(t) ==
    /\ t \in DOMAIN tasks'
    /\ Len(tasks'[t].stack) > Len(tasks[t].stack)
    /\ Top(t)'.fn = "runEventHandler"
    /\ Top(t)'.eventHandler.slot \in {"on", "onEvent"}

\* C32: once a chain evaluated for the event a drain is dispatching has
\* taken a transition, the drain evaluates no further on[event] or onEvent
\* chain for that event.
C32_TransitionEndsDispatch ==
    [][\A t \in TaskIds :
          (t \in DOMAIN tasks /\ tasks[t].hops > 0) => ~EvaluatesChain(t)]_vars

\* C33: between events, with the queue empty and every drain ended, the
\* current payload is undefined.
C33_PayloadCleared ==
    Settled => current.payload = Undefined

\* C36: a commit of an off-thread chain and a commit of an on-thread chain
\* that was suspended meanwhile do not undo one another: when the chain of
\* SLOW, the only chain left, commits after every tick chain has committed
\* its count, the data holds the count of every tick and its own.
C36_CommitsKeepBoth ==
    [][\A t \in TaskIds :
          (/\ cfg.id = Race.id
           /\ DOMAIN tasks = {t}
           /\ ~OffThreadChain(t)
           /\ current.data.count = ticks
           /\ RunEventHandlerCommit(t))
          => current'.data.count = ticks + 1]_vars

\* C31: in a transition no nested transition interrupts, the timers of the
\* exited states are cleared and every exited state's onExit chain has run
\* before the repeat of an entered state is started or an onEnter chain
\* runs; the onExit chains run in the depth-first order of the states active
\* before the transition, the onEnter chains in the depth-first order of
\* the states active after it. (In the design whose chains each append a
\* digit to the count, the count read when a chain is called names the
\* chains that have run, in their order; the transition is that of the
\* only event sent so far, with no tick of a repeat before it ends.)
C31_ExitsBeforeEnters ==
    [][\A t \in TaskIds :
          LET exited == SelectSeq(D.order, LAMBDA n : n \in {"a", "x"})
              entered == SelectSeq(D.order, LAMBDA n : n \in {"b", "y"})
              log == <<0, 1, 7, 38, 194>>
              Ran(chains, n) ==
                  CHOOSE i \in 1..Len(chains) : chains[i] = n
              Cleared ==
                  /\ \A k \in timers : k.state \notin Range(exited)
                  /\ \A n \in Range(exited) :
                        stateTree[n].times.interval = 0
          IN  (/\ cfg.id = Order.id
               /\ ticks = 0
               /\ sendCalls = 1
               /\ t \in DOMAIN tasks
               /\ Top(t).fn = "runTransition"
               /\ Top(t).targetFn = Name.b)
              => /\ (/\ RunTransitionExit(t)
                     /\ Top(t)'.fn = "runEventHandler")
                    => /\ Cleared
                       /\ \A k \in timers : k.state \notin Range(entered)
                       /\ current.data.count =
                             log[Ran(exited, Top(t)'.eventHandler.state)]
                 /\ (/\ RunTransitionEnter(t)
                     /\ Top(t).activatedStates # <<>>)
                    => /\ Cleared
                       /\ current.data.count =
                             log[Len(exited) +
                                 Ran(entered, Head(Top(t).activatedStates))]
                 /\ (/\ RunTransitionEnter(t)
                     /\ Top(t).activatedStates = <<>>)
                    => current.data.count = log[5]]_vars

\* C31 witness: GO has been handled with no tick in between: a and x were
\* left, b and y entered, y's repeat runs and the four chains have counted
C31_Witness ==
    /\ cfg.id = Order.id
    /\ Settled
    /\ ticks = 0
    /\ dispatched # <<>>
    /\ stateTree["y"].active
    /\ \E k \in timers : k.state = "y"
    /\ current.data.count = 194

====
